---- MODULE Spec2Model ----
(***************************************************************************)
(* Model of the SimBrief client library (github.com/mrlm-net/simbrief):    *)
(* the request encoder and validators of pkg/types and pkg/client, the     *)
(* polymorphic static-ID field of the response model, and the fetch        *)
(* operations of the client.                                               *)
(*                                                                         *)
(* A Go string is modelled as the sequence of its bytes, each byte a       *)
(* one-character TLA+ string, so that len() is Len and concatenation is    *)
(* \o.  The keys of url.Values and of JSON objects are compile-time        *)
(* literals of the source and are kept as TLA+ strings.  A Go pointer is   *)
(* <<>> (nil) or a one-element sequence holding the pointee.               *)
(***************************************************************************)
EXTENDS Integers, Sequences, FiniteSets, TLC

VARIABLES
    \* The request side: a caller's FlightPlanRequest and what it got back.
    req,        \* the FlightPlanRequest a caller has constructed
    values,     \* url.Values returned by the last ToURLValues call
    terr,       \* error returned by the last FlightPlanRequest.Validate call
    cerr,       \* error returned by the last Client.ValidateFlightPlanRequest call
    done,       \* the operations that have been invoked on req
    \* The static-ID field of the response model.
    sid,        \* Value of the StaticIDField that is encoded
    wire,       \* the JSON bytes: written by MarshalJSON or sent by the service
    got,        \* Value of the StaticIDField that wire is decoded into
    uerr,       \* error returned by UnmarshalJSON
    phase,      \* "new", "encoded", "received", "roundtrip", "decoded"
    \* A fetch operation of the client.
    client,     \* the Client: APIKey, BaseURL and the Transport of its HTTPClient
    given,      \* the FetchRequest as the caller passed it to the operation
    freq,       \* the FetchRequest of the operation in progress
    op,         \* "none" or the operation: "fetchFlightPlan", "GetFlightPlanXML", ...
    pc,         \* "idle", "do", "read", "returned"
    resp,       \* the HTTP response: status code and body
    ret,        \* what the operation returned: result and error
    sent,       \* the calls of HTTPClient.Do the operation in progress has made
    header,     \* the User-Agent header of the request that was sent
    url,        \* the URL the last operation has built
    \* A FlightPlanBuilder and the requests it has handed out.
    heap,       \* the FlightPlanRequest objects, by address
    builder,    \* the FlightPlanBuilder: the address in its request field
    calls,      \* the setter calls made on the builder, oldest first
    returned,   \* per Build call: the address returned and the value it had
    \* One call of a helper function.
    hin,        \* the argument: a string or a number
    hfn,        \* the function that was called, "none" before the call
    hout        \* what it returned

reqVars == <<req, values, terr, cerr, done>>
sidVars == <<sid, wire, got, uerr, phase>>
fetchVars == <<client, given, freq, op, pc, resp, ret, sent, header, url>>
builderVars == <<heap, builder, calls, returned>>
helperVars == <<hin, hfn, hout>>
vars == <<reqVars, sidVars, fetchVars, builderVars, helperVars>>

(***************************************************************************)
(* Bounds of the model.                                                    *)
(***************************************************************************)
\* Most optional request fields that are set besides the five validated ones.
MaxOptional == 1
\* Longest static ID that is encoded.
MaxIDLen == 3

(***************************************************************************)
(* strconv                                                                 *)
(***************************************************************************)
DigitChar == <<"0", "1", "2", "3", "4", "5", "6", "7", "8", "9">>

RECURSIVE NatToStr(_)
NatToStr(n) ==
    IF n < 10 THEN <<DigitChar[n + 1]>>
    ELSE NatToStr(n \div 10) \o <<DigitChar[(n % 10) + 1]>>

\* strconv.Itoa: the decimal representation, "-" first for a negative value.
Itoa(n) == IF n < 0 THEN <<"-">> \o NatToStr(-n) ELSE NatToStr(n)

IsDigit(c) == \E d \in 1..10 : DigitChar[d] = c

DigitValue(c) == (CHOOSE d \in 1..10 : DigitChar[d] = c) - 1

RECURSIVE DigitsValue(_)
DigitsValue(s) ==
    IF s = <<>> THEN 0
    ELSE DigitsValue(SubSeq(s, 1, Len(s) - 1)) * 10 + DigitValue(s[Len(s)])

\* strconv.Atoi: an optional sign and at least one decimal digit, nothing else.
Atoi(s) ==
    LET signed == s # <<>> /\ s[1] \in {"+", "-"}
        body   == IF signed THEN Tail(s) ELSE s
    IN  IF body = <<>> \/ \E i \in 1..Len(body) : ~IsDigit(body[i])
        THEN [ok |-> FALSE, val |-> 0]
        ELSE [ok |-> TRUE,
              val |-> IF signed /\ s[1] = "-" THEN -DigitsValue(body)
                      ELSE DigitsValue(body)]

(***************************************************************************)
(* float64.  A finite value is held in thousandths (the weights of the     *)
(* API carry up to three decimal places); NaN and +Inf are values of the   *)
(* type as well.                                                           *)
(***************************************************************************)
FloatZero == [kind |-> "finite", milli |-> 0]
FloatNaN  == [kind |-> "nan", milli |-> 0]
FloatInf  == [kind |-> "inf", milli |-> 0]
Finite(m) == [kind |-> "finite", milli |-> m]

\* Go's  value != 0  on a float64: NaN and Inf compare unequal to 0.
FloatNonZero(x) == ~(x.kind = "finite" /\ x.milli = 0)

RECURSIVE StripZeros(_)
StripZeros(s) ==
    IF s # <<>> /\ s[Len(s)] = "0" THEN StripZeros(SubSeq(s, 1, Len(s) - 1)) ELSE s

\* The three fraction digits of a value in thousandths, trailing zeros dropped.
Fraction(m) ==
    StripZeros(<<DigitChar[(m \div 100) + 1], DigitChar[((m \div 10) % 10) + 1],
                 DigitChar[(m % 10) + 1]>>)

\* strconv.FormatFloat(value, 'f', -1, 64): the shortest decimal that round-trips.
FormatFloat(x) ==
    CASE x.kind = "nan" -> <<"N", "a", "N">>
      [] x.kind = "inf" -> <<"+", "I", "n", "f">>
      [] OTHER ->
            LET a    == IF x.milli < 0 THEN -x.milli ELSE x.milli
                sign == IF x.milli < 0 THEN <<"-">> ELSE <<>>
                frac == Fraction(a % 1000)
            IN  sign \o NatToStr(a \div 1000)
                     \o (IF frac = <<>> THEN <<>> ELSE <<".">> \o frac)

(***************************************************************************)
(* encoding/json, as far as the library uses it to write a value.          *)
(***************************************************************************)
\* A byte that is not part of any valid UTF-8 sequence (0xFF), and the rune
\* U+FFFD that the decoders and encoders of Go put in its place.
BadByte == "<FF>"
ReplacementChar == "<U+FFFD>"

\* One byte of a Go string inside a JSON string literal (json.Marshal escapes
\* HTML characters, and writes the escape of U+FFFD for a byte that is not valid UTF-8).
EscapeChar(c) ==
    CASE c = "\"" -> <<"\\", "\"">>
      [] c = "\\" -> <<"\\", "\\">>
      [] c = "\n" -> <<"\\", "n">>
      [] c = "<"  -> <<"\\", "u", "0", "0", "3", "c">>
      [] c = ">"  -> <<"\\", "u", "0", "0", "3", "e">>
      [] c = "&"  -> <<"\\", "u", "0", "0", "2", "6">>
      [] c = BadByte -> <<"\\", "u", "f", "f", "f", "d">>
      [] OTHER -> <<c>>

RECURSIVE EscapeString(_)
EscapeString(s) ==
    IF s = <<>> THEN <<>> ELSE EscapeChar(Head(s)) \o EscapeString(Tail(s))

\* json.Marshal of a Go string: always succeeds.
MarshalString(s) == <<"\"">> \o EscapeString(s) \o <<"\"">>

(***************************************************************************)
(* types.AircraftData and its String method.                               *)
(***************************************************************************)
ZeroAircraftData == [
    Category     |-> <<>>,
    Equipment    |-> <<>>,
    Transponder  |-> <<>>,
    PBN          |-> <<>>,
    ExtraRemark  |-> <<>>,
    MaxPax       |-> <<>>,
    OEW          |-> FloatZero,
    MZFW         |-> FloatZero,
    MTOW         |-> FloatZero,
    MLW          |-> FloatZero,
    MaxFuel      |-> FloatZero,
    HexCode      |-> <<>>,
    Per          |-> <<>>,
    PaxWgt       |-> 0,
    ICAO         |-> <<>>,
    Name         |-> <<>>,
    Engines      |-> <<>>]

\* The struct fields in declaration order: <<Go kind, json name, value>>.
\* Every field carries the omitempty option.
AircraftDataMembers(ad) == <<
    <<"string", <<"c", "a", "t">>, ad.Category>>,
    <<"string", <<"e", "q", "u", "i", "p">>, ad.Equipment>>,
    <<"string", <<"t", "r", "a", "n", "s", "p", "o", "n", "d", "e", "r">>, ad.Transponder>>,
    <<"string", <<"p", "b", "n">>, ad.PBN>>,
    <<"string", <<"e", "x", "t", "r", "a", "r", "m", "k">>, ad.ExtraRemark>>,
    <<"string", <<"m", "a", "x", "p", "a", "x">>, ad.MaxPax>>,
    <<"float", <<"o", "e", "w">>, ad.OEW>>,
    <<"float", <<"m", "z", "f", "w">>, ad.MZFW>>,
    <<"float", <<"m", "t", "o", "w">>, ad.MTOW>>,
    <<"float", <<"m", "l", "w">>, ad.MLW>>,
    <<"float", <<"m", "a", "x", "f", "u", "e", "l">>, ad.MaxFuel>>,
    <<"string", <<"h", "e", "x", "c", "o", "d", "e">>, ad.HexCode>>,
    <<"string", <<"p", "e", "r">>, ad.Per>>,
    <<"int", <<"p", "a", "x", "w", "g", "t">>, ad.PaxWgt>>,
    <<"string", <<"i", "c", "a", "o">>, ad.ICAO>>,
    <<"string", <<"n", "a", "m", "e">>, ad.Name>>,
    <<"string", <<"e", "n", "g", "i", "n", "e", "s">>, ad.Engines>>>>

\* omitempty: a member is left out when it is "", 0 or 0.0.
MemberEmpty(m) ==
    CASE m[1] = "string" -> m[3] = <<>>
      [] m[1] = "int"    -> m[3] = 0
      [] m[1] = "float"  -> ~FloatNonZero(m[3])

\* json.Marshal rejects NaN and the infinities (UnsupportedValueError).
MemberUnsupported(m) == m[1] = "float" /\ m[3].kind # "finite"

MemberValue(m) ==
    CASE m[1] = "string" -> MarshalString(m[3])
      [] m[1] = "int"    -> Itoa(m[3])
      [] m[1] = "float"  -> FormatFloat(m[3])

MemberText(m) == <<"\"">> \o m[2] \o <<"\"", ":">> \o MemberValue(m)

RECURSIVE JoinMembers(_)
JoinMembers(ms) ==
    IF ms = <<>> THEN <<>>
    ELSE IF Len(ms) = 1 THEN MemberText(ms[1])
    ELSE MemberText(ms[1]) \o <<",">> \o JoinMembers(Tail(ms))

\* json.Marshal(ad): (data, err).  On an error the data is nil.
MarshalAircraftData(ad) ==
    LET present == SelectSeq(AircraftDataMembers(ad), LAMBDA m : ~MemberEmpty(m))
    IN  IF \E i \in 1..Len(present) : MemberUnsupported(present[i])
        THEN [data |-> <<>>, err |-> TRUE]
        ELSE [data |-> <<"{">> \o JoinMembers(present) \o <<"}">>, err |-> FALSE]

\* func (ad *AircraftData) String() string: the error of json.Marshal is dropped.
String(ad) == IF ad = <<>> THEN <<>> ELSE MarshalAircraftData(ad[1]).data

(***************************************************************************)
(* net/url.Values: a map from a key to the list of its values.             *)
(***************************************************************************)
EmptyValues == [k \in {} |-> <<>>]

\* url.Values.Add: append the value to the key's list.
Add(v, key, value) ==
    [k \in DOMAIN v \cup {key} |->
        IF k = key
        THEN (IF key \in DOMAIN v THEN Append(v[key], value) ELSE <<value>>)
        ELSE v[k]]

(***************************************************************************)
(* types.FlightPlanRequest                                                 *)
(***************************************************************************)
\* The zero value of the struct.
ZeroRequest == [
    Origin           |-> <<>>,
    Destination      |-> <<>>,
    Aircraft         |-> <<>>,
    Airline          |-> <<>>,
    FlightNumber     |-> <<>>,
    Date             |-> <<>>,
    DepartureHour    |-> 0,
    DepartureMinute  |-> 0,
    Route            |-> <<>>,
    ScheduledHour    |-> 0,
    ScheduledMinute  |-> 0,
    Registration     |-> <<>>,
    FinNumber        |-> <<>>,
    SELCAL           |-> <<>>,
    ATCCallsign      |-> <<>>,
    Passengers       |-> 0,
    CaptainName      |-> <<>>,
    DispatcherName   |-> <<>>,
    PilotID          |-> <<>>,
    Alternate        |-> <<>>,
    Altitude         |-> <<>>,
    AltnCount        |-> 0,
    AltnAvoid        |-> <<>>,
    Altn1ID          |-> <<>>,
    Altn1Runway      |-> <<>>,
    Altn1Route       |-> <<>>,
    Altn2ID          |-> <<>>,
    Altn2Runway      |-> <<>>,
    Altn2Route       |-> <<>>,
    Altn3ID          |-> <<>>,
    Altn3Runway      |-> <<>>,
    Altn3Route       |-> <<>>,
    Altn4ID          |-> <<>>,
    Altn4Runway      |-> <<>>,
    Altn4Route       |-> <<>>,
    FuelFactor       |-> <<>>,
    ManualZFW        |-> FloatZero,
    AddedFuel        |-> <<>>,
    AddedFuelUnits   |-> <<>>,
    ContFuelPct      |-> <<>>,
    ReserveFuel      |-> 0,
    Cargo            |-> FloatZero,
    TaxiOut          |-> 0,
    TaxiIn           |-> 0,
    OriginRunway     |-> <<>>,
    DestRunway       |-> <<>>,
    ClimbProfile     |-> <<>>,
    DescentProfile   |-> <<>>,
    CruiseProfile    |-> <<>>,
    CostIndex        |-> <<>>,
    AircraftData     |-> <<>>,
    ETOPSRule        |-> <<>>,
    ManualRemarks    |-> <<>>,
    StaticID         |-> <<>>,
    PlanFormat       |-> <<>>,
    Units            |-> <<>>,
    NavLog           |-> <<>>,
    ETOPS            |-> <<>>,
    StepClimbs       |-> <<>>,
    RunwayAnalysis   |-> <<>>,
    NOTAMs           |-> <<>>,
    FIRNOTAMs        |-> <<>>,
    Maps             |-> <<>>,
    OmitSIDs         |-> <<>>,
    OmitSTARs        |-> <<>>,
    FindSIDSTAR      |-> <<>>]

\* The wire-parameter name of each field: its `form` struct tag.
WireName == [
    Origin |-> "orig", Destination |-> "dest", Aircraft |-> "type", Airline |-> "airline",
    FlightNumber |-> "fltnum", Date |-> "date", DepartureHour |-> "deph",
    DepartureMinute |-> "depm", Route |-> "route", ScheduledHour |-> "steh",
    ScheduledMinute |-> "stem", Registration |-> "reg", FinNumber |-> "fin",
    SELCAL |-> "selcal", ATCCallsign |-> "callsign", Passengers |-> "pax",
    CaptainName |-> "cpt", DispatcherName |-> "dxname", PilotID |-> "pid",
    Alternate |-> "altn", Altitude |-> "fl", AltnCount |-> "altn_count",
    AltnAvoid |-> "altn_avoid", Altn1ID |-> "altn_1_id", Altn1Runway |-> "altn_1_rwy",
    Altn1Route |-> "altn_1_route", Altn2ID |-> "altn_2_id", Altn2Runway |-> "altn_2_rwy",
    Altn2Route |-> "altn_2_route", Altn3ID |-> "altn_3_id", Altn3Runway |-> "altn_3_rwy",
    Altn3Route |-> "altn_3_route", Altn4ID |-> "altn_4_id", Altn4Runway |-> "altn_4_rwy",
    Altn4Route |-> "altn_4_route", FuelFactor |-> "fuelfactor", ManualZFW |-> "manualzfw",
    AddedFuel |-> "addedfuel", AddedFuelUnits |-> "addedfuel_units",
    ContFuelPct |-> "contpct", ReserveFuel |-> "resvrule", Cargo |-> "cargo",
    TaxiOut |-> "taxiout", TaxiIn |-> "taxiin", OriginRunway |-> "origrwy",
    DestRunway |-> "destrwy", ClimbProfile |-> "climb", DescentProfile |-> "descent",
    CruiseProfile |-> "cruise", CostIndex |-> "civalue", AircraftData |-> "acdata",
    ETOPSRule |-> "etopsrule", ManualRemarks |-> "manualrmk", StaticID |-> "static_id",
    PlanFormat |-> "planformat", Units |-> "units", NavLog |-> "navlog",
    ETOPS |-> "etops", StepClimbs |-> "stepclimbs", RunwayAnalysis |-> "tlr",
    NOTAMs |-> "notams", FIRNOTAMs |-> "firnot", Maps |-> "maps",
    OmitSIDs |-> "omit_sids", OmitSTARs |-> "omit_stars", FindSIDSTAR |-> "find_sidstar"]

\* types.NewFlightPlanRequest
NewFlightPlanRequest(origin, destination, aircraft) ==
    [ZeroRequest EXCEPT !.Origin = origin, !.Destination = destination,
                        !.Aircraft = aircraft]

\* The helper closures of ToURLValues.  Each is written as the list of the
\* values.Add(key, value) calls it makes: none or one.
addString(key, value) == IF value # <<>> THEN << <<key, value>> >> ELSE <<>>

\* Mutant: the guard is  value > 0.
addInt_PositiveOnly(key, value) ==
    IF value > 0 THEN << <<key, Itoa(value)>> >> ELSE <<>>

addInt(key, value) == IF value # 0 THEN << <<key, Itoa(value)>> >> ELSE <<>>

addFloat(key, value) ==
    IF FloatNonZero(value) THEN << <<key, FormatFloat(value)>> >> ELSE <<>>

\* Mutant: the guard is  value != nil && *value.
addBool_DropsFalse(key, value) ==
    IF value # <<>> /\ value[1] THEN << <<key, <<"1">> >> >> ELSE <<>>

addBool(key, value) ==
    IF value # <<>>
    THEN (IF value[1] THEN << <<key, <<"1">> >> >> ELSE << <<key, <<"0">> >> >>)
    ELSE <<>>

\* if fpr.AircraftData != nil { addString("acdata", fpr.AircraftData.String()) }
addAircraftData(key, value) ==
    IF value # <<>> THEN addString(key, String(value)) ELSE <<>>

\* The values.Add calls of ToURLValues, in the order of the source.
Calls(fpr) ==
    addString("orig", fpr.Origin) \o
    addString("dest", fpr.Destination) \o
    addString("type", fpr.Aircraft) \o
    addString("airline", fpr.Airline) \o
    addString("fltnum", fpr.FlightNumber) \o
    addString("date", fpr.Date) \o
    addInt("deph", fpr.DepartureHour) \o
    addInt("depm", fpr.DepartureMinute) \o
    addString("route", fpr.Route) \o
    addInt("steh", fpr.ScheduledHour) \o
    addInt("stem", fpr.ScheduledMinute) \o
    addString("reg", fpr.Registration) \o
    addString("fin", fpr.FinNumber) \o
    addString("selcal", fpr.SELCAL) \o
    addString("callsign", fpr.ATCCallsign) \o
    addInt("pax", fpr.Passengers) \o
    addString("cpt", fpr.CaptainName) \o
    addString("dxname", fpr.DispatcherName) \o
    addString("pid", fpr.PilotID) \o
    addString("altn", fpr.Alternate) \o
    addString("fl", fpr.Altitude) \o
    addInt("altn_count", fpr.AltnCount) \o
    addString("altn_avoid", fpr.AltnAvoid) \o
    addString("altn_1_id", fpr.Altn1ID) \o
    addString("altn_1_rwy", fpr.Altn1Runway) \o
    addString("altn_1_route", fpr.Altn1Route) \o
    addString("altn_2_id", fpr.Altn2ID) \o
    addString("altn_2_rwy", fpr.Altn2Runway) \o
    addString("altn_2_route", fpr.Altn2Route) \o
    addString("altn_3_id", fpr.Altn3ID) \o
    addString("altn_3_rwy", fpr.Altn3Runway) \o
    addString("altn_3_route", fpr.Altn3Route) \o
    addString("altn_4_id", fpr.Altn4ID) \o
    addString("altn_4_rwy", fpr.Altn4Runway) \o
    addString("altn_4_route", fpr.Altn4Route) \o
    addString("fuelfactor", fpr.FuelFactor) \o
    addFloat("manualzfw", fpr.ManualZFW) \o
    addString("addedfuel", fpr.AddedFuel) \o
    addString("addedfuel_units", fpr.AddedFuelUnits) \o
    addString("contpct", fpr.ContFuelPct) \o
    addInt("resvrule", fpr.ReserveFuel) \o
    addFloat("cargo", fpr.Cargo) \o
    addInt("taxiout", fpr.TaxiOut) \o
    addInt("taxiin", fpr.TaxiIn) \o
    addString("origrwy", fpr.OriginRunway) \o
    addString("destrwy", fpr.DestRunway) \o
    addString("climb", fpr.ClimbProfile) \o
    addString("descent", fpr.DescentProfile) \o
    addString("cruise", fpr.CruiseProfile) \o
    addString("civalue", fpr.CostIndex) \o
    addAircraftData("acdata", fpr.AircraftData) \o
    addString("etopsrule", fpr.ETOPSRule) \o
    addString("manualrmk", fpr.ManualRemarks) \o
    addString("static_id", fpr.StaticID) \o
    addString("planformat", fpr.PlanFormat) \o
    addString("units", fpr.Units) \o
    addBool("navlog", fpr.NavLog) \o
    addBool("etops", fpr.ETOPS) \o
    addBool("stepclimbs", fpr.StepClimbs) \o
    addBool("tlr", fpr.RunwayAnalysis) \o
    addBool("notams", fpr.NOTAMs) \o
    addBool("firnot", fpr.FIRNOTAMs) \o
    addString("maps", fpr.Maps) \o
    addBool("omit_sids", fpr.OmitSIDs) \o
    addBool("omit_stars", fpr.OmitSTARs) \o
    addString("find_sidstar", fpr.FindSIDSTAR)

\* The map that a list of Add calls builds from the empty map: a key is
\* present when a call names it, and holds the values added, in call order.
AfterAdds(adds) ==
    [k \in {adds[i][1] : i \in 1..Len(adds)} |->
        LET mine == SelectSeq(adds, LAMBDA c : c[1] = k)
        IN  [j \in 1..Len(mine) |-> mine[j][2]]]

\* func (fpr *FlightPlanRequest) ToURLValues() url.Values
ToURLValues(fpr) == AfterAdds(Calls(fpr))

(***************************************************************************)
(* Validation                                                              *)
(***************************************************************************)
\* A nil error.
Nil == "<nil>"

ErrMissingOrigin == "origin airport (orig) is required"
ErrMissingDestination == "destination airport (dest) is required"
ErrMissingAircraft == "aircraft type (type) is required"
ErrOriginLength == "origin airport code must be 4 characters (ICAO format)"
ErrDestinationLength == "destination airport code must be 4 characters (ICAO format)"
ErrDepartureHour == "departure hour must be between 0 and 23"
ErrDepartureMinute == "departure minute must be between 0 and 59"

\* Mutant: the aircraft type is not checked.
Validate_NoAircraft(fpr) ==
    IF fpr.Origin = <<>> THEN ErrMissingOrigin
    ELSE IF fpr.Destination = <<>> THEN ErrMissingDestination
    ELSE Nil

\* func (fpr *FlightPlanRequest) Validate() error
Validate(fpr) ==
    IF fpr.Origin = <<>> THEN ErrMissingOrigin
    ELSE IF fpr.Destination = <<>> THEN ErrMissingDestination
    ELSE IF fpr.Aircraft = <<>> THEN ErrMissingAircraft
    ELSE Nil

\* Mutant: the destination is checked before the origin.
ValidateFlightPlanRequest_DestinationFirst(r) ==
    IF r.Destination = <<>> THEN ErrMissingDestination
    ELSE IF r.Origin = <<>> THEN ErrMissingOrigin
    ELSE IF r.Aircraft = <<>> THEN ErrMissingAircraft
    ELSE IF Len(r.Origin) # 4 THEN ErrOriginLength
    ELSE IF Len(r.Destination) # 4 THEN ErrDestinationLength
    ELSE IF r.DepartureHour # 0 /\ (r.DepartureHour < 0 \/ r.DepartureHour > 23)
         THEN ErrDepartureHour
    ELSE IF r.DepartureMinute # 0 /\ (r.DepartureMinute < 0 \/ r.DepartureMinute > 59)
         THEN ErrDepartureMinute
    ELSE Nil

\* Mutant: the length of the destination code is not checked.
ValidateFlightPlanRequest_NoDestinationLength(r) ==
    IF r.Origin = <<>> THEN ErrMissingOrigin
    ELSE IF r.Destination = <<>> THEN ErrMissingDestination
    ELSE IF r.Aircraft = <<>> THEN ErrMissingAircraft
    ELSE IF Len(r.Origin) # 4 THEN ErrOriginLength
    ELSE IF r.DepartureHour # 0 /\ (r.DepartureHour < 0 \/ r.DepartureHour > 23)
         THEN ErrDepartureHour
    ELSE IF r.DepartureMinute # 0 /\ (r.DepartureMinute < 0 \/ r.DepartureMinute > 59)
         THEN ErrDepartureMinute
    ELSE Nil

\* Mutant: only the upper bounds of the hour and the minute are checked.
ValidateFlightPlanRequest_UpperBoundsOnly(r) ==
    IF r.Origin = <<>> THEN ErrMissingOrigin
    ELSE IF r.Destination = <<>> THEN ErrMissingDestination
    ELSE IF r.Aircraft = <<>> THEN ErrMissingAircraft
    ELSE IF Len(r.Origin) # 4 THEN ErrOriginLength
    ELSE IF Len(r.Destination) # 4 THEN ErrDestinationLength
    ELSE IF r.DepartureHour # 0 /\ r.DepartureHour > 23 THEN ErrDepartureHour
    ELSE IF r.DepartureMinute # 0 /\ r.DepartureMinute > 59 THEN ErrDepartureMinute
    ELSE Nil

\* func (c *Client) ValidateFlightPlanRequest(req *types.FlightPlanRequest) error
ValidateFlightPlanRequest(r) ==
    IF r.Origin = <<>> THEN ErrMissingOrigin
    ELSE IF r.Destination = <<>> THEN ErrMissingDestination
    ELSE IF r.Aircraft = <<>> THEN ErrMissingAircraft
    ELSE IF Len(r.Origin) # 4 THEN ErrOriginLength
    ELSE IF Len(r.Destination) # 4 THEN ErrDestinationLength
    ELSE IF r.DepartureHour # 0 /\ (r.DepartureHour < 0 \/ r.DepartureHour > 23)
         THEN ErrDepartureHour
    ELSE IF r.DepartureMinute # 0 /\ (r.DepartureMinute < 0 \/ r.DepartureMinute > 59)
         THEN ErrDepartureMinute
    ELSE Nil

(***************************************************************************)
(* encoding/json, as far as the library uses it to read a value: the       *)
(* syntax check of the document, and the decoding of a string literal.     *)
(***************************************************************************)
HexDigits == {"0", "1", "2", "3", "4", "5", "6", "7", "8", "9",
              "a", "b", "c", "d", "e", "f", "A", "B", "C", "D", "E", "F"}

\* The byte a simple escape stands for.
SimpleEscape(c) ==
    CASE c = "n" -> "\n"
      [] c = "t" -> "\t"
      [] c = "r" -> "\r"
      [] c = "b" -> "<BS>"
      [] c = "f" -> "\f"
      [] OTHER -> c

\* The rune of a \uXXXX escape (the escapes the encoder writes, and A).
HexRune(h) ==
    CASE h = <<"0", "0", "3", "c">> -> "<"
      [] h = <<"0", "0", "3", "e">> -> ">"
      [] h = <<"0", "0", "2", "6">> -> "&"
      [] h = <<"0", "0", "2", "2">> -> "\""
      [] h = <<"0", "0", "4", "1">> -> "A"
      [] OTHER -> ReplacementChar

\* The index after the string literal whose opening quote is before i, or 0.
RECURSIVE StringEnd(_, _)
StringEnd(t, i) ==
    IF i > Len(t) THEN 0
    ELSE IF t[i] = "\"" THEN i + 1
    ELSE IF t[i] \in {"\n", "\t", "\r"} THEN 0
    ELSE IF t[i] = "\\"
         THEN IF i + 1 > Len(t) THEN 0
              ELSE IF t[i + 1] \in {"\"", "\\", "/", "b", "f", "n", "r", "t"}
                   THEN StringEnd(t, i + 2)
              ELSE IF /\ t[i + 1] = "u" /\ i + 5 <= Len(t)
                      /\ \A k \in (i + 2)..(i + 5) : t[k] \in HexDigits
                   THEN StringEnd(t, i + 6)
              ELSE 0
    ELSE StringEnd(t, i + 1)

\* The Go string of a valid string literal, read from i to its closing quote.
RECURSIVE Unquote(_, _)
Unquote(t, i) ==
    IF t[i] = "\"" THEN <<>>
    ELSE IF t[i] = "\\"
         THEN IF t[i + 1] = "u"
              THEN <<HexRune(SubSeq(t, i + 2, i + 5))>> \o Unquote(t, i + 6)
              ELSE <<SimpleEscape(t[i + 1])>> \o Unquote(t, i + 2)
    ELSE IF t[i] = BadByte THEN <<ReplacementChar>> \o Unquote(t, i + 1)
    ELSE <<t[i]>> \o Unquote(t, i + 1)

\* The index after the digits that start at i (at least one), or 0.
RECURSIVE DigitsEnd(_, _)
DigitsEnd(t, i) ==
    IF i > Len(t) \/ ~IsDigit(t[i]) THEN 0
    ELSE IF i + 1 <= Len(t) /\ IsDigit(t[i + 1]) THEN DigitsEnd(t, i + 1)
    ELSE i + 1

\* A number: an optional minus sign and an integer without a leading zero.
NumberEnd(t, i) ==
    LET j == IF t[i] = "-" THEN i + 1 ELSE i
    IN  IF j > Len(t) THEN 0
        ELSE IF t[j] = "0" THEN j + 1
        ELSE DigitsEnd(t, j)

LiteralEnd(t, i, word) ==
    IF i + Len(word) - 1 <= Len(t) /\ SubSeq(t, i, i + Len(word) - 1) = word
    THEN i + Len(word) ELSE 0

\* The index after the JSON value that starts at i, or 0 when there is none.
RECURSIVE ValueEnd(_, _)
RECURSIVE MembersEnd(_, _)
RECURSIVE ElementsEnd(_, _)
ValueEnd(t, i) ==
    IF i > Len(t) THEN 0
    ELSE CASE t[i] = "\"" -> StringEnd(t, i + 1)
           [] t[i] = "{" -> IF i + 1 <= Len(t) /\ t[i + 1] = "}" THEN i + 2
                            ELSE MembersEnd(t, i + 1)
           [] t[i] = "[" -> IF i + 1 <= Len(t) /\ t[i + 1] = "]" THEN i + 2
                            ELSE ElementsEnd(t, i + 1)
           [] t[i] = "t" -> LiteralEnd(t, i, <<"t", "r", "u", "e">>)
           [] t[i] = "f" -> LiteralEnd(t, i, <<"f", "a", "l", "s", "e">>)
           [] t[i] = "n" -> LiteralEnd(t, i, <<"n", "u", "l", "l">>)
           [] t[i] = "-" \/ IsDigit(t[i]) -> NumberEnd(t, i)
           [] OTHER -> 0

\* "key":value pairs up to the closing brace.
MembersEnd(t, i) ==
    IF i > Len(t) \/ t[i] # "\"" THEN 0
    ELSE LET j == StringEnd(t, i + 1)
         IN  IF j = 0 \/ j > Len(t) \/ t[j] # ":" THEN 0
             ELSE LET k == ValueEnd(t, j + 1)
                  IN  IF k = 0 \/ k > Len(t) THEN 0
                      ELSE IF t[k] = "}" THEN k + 1
                      ELSE IF t[k] = "," THEN MembersEnd(t, k + 1)
                      ELSE 0

\* Values up to the closing bracket.
ElementsEnd(t, i) ==
    LET k == ValueEnd(t, i)
    IN  IF k = 0 \/ k > Len(t) THEN 0
        ELSE IF t[k] = "]" THEN k + 1
        ELSE IF t[k] = "," THEN ElementsEnd(t, k + 1)
        ELSE 0

\* json.Valid: the whole input is one JSON value.
ValidJSON(t) == t # <<>> /\ ValueEnd(t, 1) = Len(t) + 1

\* json.Unmarshal(data, &str) for a string: a string literal is decoded, null
\* leaves the variable as it is, any other value is a type error.
UnmarshalString(data) ==
    IF ~ValidJSON(data) THEN [ok |-> FALSE, str |-> <<>>]
    ELSE IF data[1] = "\"" THEN [ok |-> TRUE, str |-> Unquote(data, 2)]
    ELSE IF data[1] = "n" THEN [ok |-> TRUE, str |-> <<>>]
    ELSE [ok |-> FALSE, str |-> <<>>]

\* json.Unmarshal(data, &obj) for a map[string]interface{}: an object of any
\* content is decoded, null leaves the map nil, any other value is a type error.
UnmarshalMap(data) == ValidJSON(data) /\ data[1] \in {"{", "n"}

(***************************************************************************)
(* types.StaticIDField                                                     *)
(***************************************************************************)
ErrStaticID == "static_id must be either string or object"

\* Mutant: the decoded string is not stored in the field.
UnmarshalJSON_NoAssign(old, data) ==
    IF UnmarshalString(data).ok
    THEN [Value |-> old, err |-> Nil]
    ELSE IF UnmarshalMap(data)
    THEN [Value |-> <<>>, err |-> Nil]
    ELSE [Value |-> old, err |-> ErrStaticID]

\* Mutant: there is no second attempt, as an object.
UnmarshalJSON_StringOnly(old, data) ==
    IF UnmarshalString(data).ok
    THEN [Value |-> UnmarshalString(data).str, err |-> Nil]
    ELSE [Value |-> old, err |-> ErrStaticID]

\* func (s *StaticIDField) UnmarshalJSON(data []byte) error, on a field that
\* holds old: the value the field holds afterwards, and the error.
UnmarshalJSON(old, data) ==
    IF UnmarshalString(data).ok
    THEN [Value |-> UnmarshalString(data).str, err |-> Nil]
    ELSE IF UnmarshalMap(data)
    THEN [Value |-> <<>>, err |-> Nil]
    ELSE [Value |-> old, err |-> ErrStaticID]

\* func (s StaticIDField) MarshalJSON() ([]byte, error); the error is always nil.
MarshalJSON(value) ==
    IF value = <<>> THEN <<"{", "}">> ELSE MarshalString(value)

(***************************************************************************)
(* The requests a caller constructs (a composite literal of the struct).   *)
(***************************************************************************)
\* The five fields the validators read.
CoreFields == {"Origin", "Destination", "Aircraft", "DepartureHour", "DepartureMinute"}

OptionalFields == (DOMAIN ZeroRequest) \ CoreFields

IntFields == {"DepartureHour", "DepartureMinute", "ScheduledHour", "ScheduledMinute",
              "Passengers", "AltnCount", "ReserveFuel", "TaxiOut", "TaxiIn"}
FloatFields == {"ManualZFW", "Cargo"}
BoolFields == {"NavLog", "ETOPS", "StepClimbs", "RunwayAnalysis", "NOTAMs",
               "FIRNOTAMs", "OmitSIDs", "OmitSTARs"}

Origins == {<<>>, <<"J", "F", "K">>, <<"K", "J", "F", "K">>, <<"K", "J", "F", "K", "X">>}
Destinations == {<<>>, <<"L", "A", "X">>, <<"K", "L", "A", "X">>, <<"K", "L", "A", "X", "X">>}
AircraftTypes == {<<>>, <<"B", "7", "3", "8">>}
Hours == {-1, 0, 14, 23, 24}
Minutes == {-1, 0, 30, 59, 60}

StringSamples == << <<"A", "1">>, <<"H", " ", "&", "=", "\"">> >>
IntSamples == <<150, -3>>
FloatSamples == <<Finite(40100), Finite(-5000), Finite(7), FloatNaN, FloatInf>>
BoolSamples == << <<TRUE>>, <<FALSE>> >>

\* Aircraft overrides: the empty struct, the one of TestAircraftDataString, one
\* per sub-field, and ones whose weights are not finite numbers.
AircraftDataSamples == <<
    ZeroAircraftData,
    [ZeroAircraftData EXCEPT !.ICAO = <<"B", "7", "3", "8">>,
                             !.Name = <<"7", "3", "7", "-", "8", "0", "0">>,
                             !.Category = <<"M">>, !.OEW = Finite(90700),
                             !.MTOW = Finite(174200)],
    [ZeroAircraftData EXCEPT !.Category = <<"H">>],
    [ZeroAircraftData EXCEPT !.Equipment = <<"S", "D">>],
    [ZeroAircraftData EXCEPT !.Transponder = <<"L", "B">>],
    [ZeroAircraftData EXCEPT !.PBN = <<"P", "B", "N", "/", "A", "1">>],
    [ZeroAircraftData EXCEPT !.ExtraRemark = <<"R", "<", "\"">>],
    [ZeroAircraftData EXCEPT !.MaxPax = <<"1", "8", "9">>],
    [ZeroAircraftData EXCEPT !.OEW = Finite(99300)],
    [ZeroAircraftData EXCEPT !.MZFW = Finite(138300)],
    [ZeroAircraftData EXCEPT !.MTOW = Finite(181200)],
    [ZeroAircraftData EXCEPT !.MLW = Finite(152800)],
    [ZeroAircraftData EXCEPT !.MaxFuel = Finite(46000)],
    [ZeroAircraftData EXCEPT !.HexCode = <<"A", "0">>],
    [ZeroAircraftData EXCEPT !.Per = <<"C">>],
    [ZeroAircraftData EXCEPT !.PaxWgt = 175],
    [ZeroAircraftData EXCEPT !.ICAO = <<"B", "3", "8", "M">>],
    [ZeroAircraftData EXCEPT !.Name = <<"M", "A", "X">>],
    [ZeroAircraftData EXCEPT !.Engines = <<"L", "E", "A", "P">>],
    [ZeroAircraftData EXCEPT !.OEW = FloatNaN],
    [ZeroAircraftData EXCEPT !.Name = <<"M", "A", "X">>, !.MaxFuel = FloatInf] >>

NumSamples(f) ==
    CASE f \in IntFields -> Len(IntSamples)
      [] f \in FloatFields -> Len(FloatSamples)
      [] f \in BoolFields -> Len(BoolSamples)
      [] f = "AircraftData" -> Len(AircraftDataSamples)
      [] OTHER -> Len(StringSamples)

\* The i-th non-zero value of field f.
Sample(f, i) ==
    CASE f \in IntFields -> IntSamples[i]
      [] f \in FloatFields -> FloatSamples[i]
      [] f \in BoolFields -> BoolSamples[i]
      [] f = "AircraftData" -> <<AircraftDataSamples[i]>>
      [] OTHER -> StringSamples[i]

Settings ==
    {x \in OptionalFields \X (1..Len(AircraftDataSamples)) : x[2] <= NumSamples(x[1])}

\* The ways to set at most k optional fields.
RECURSIVE Assignments(_)
Assignments(k) ==
    IF k = 0 THEN {{}}
    ELSE LET P == Assignments(k - 1)
         IN  P \cup {s \cup {x} : s \in {t \in P : Cardinality(t) = k - 1},
                                  x \in Settings}

WellFormed(asg) == \A x, y \in asg : x[1] = y[1] => x = y

Literal(o, d, a, h, m, asg) ==
    [f \in DOMAIN ZeroRequest |->
        CASE f = "Origin" -> o
          [] f = "Destination" -> d
          [] f = "Aircraft" -> a
          [] f = "DepartureHour" -> h
          [] f = "DepartureMinute" -> m
          [] OTHER -> IF \E x \in asg : x[1] = f
                      THEN Sample(f, (CHOOSE x \in asg : x[1] = f)[2])
                      ELSE ZeroRequest[f]]

\* With optional fields set, the validated fields are all set or all zero.
SmallCore(o, d, a, h, m) ==
    \/ o = <<>> /\ d = <<>> /\ a = <<>> /\ h = 0 /\ m = 0
    \/ Len(o) = 4 /\ Len(d) = 4 /\ a # <<>> /\ <<h, m>> \in {<<0, 0>>, <<14, 30>>}

\* Nothing has been constructed or called on this side.
IdleRequest ==
    /\ req = ZeroRequest
    /\ values = EmptyValues
    /\ terr = Nil
    /\ cerr = Nil
    /\ done = {}

InitRequest ==
    /\ \E o \in Origins, d \in Destinations, a \in AircraftTypes,
          h \in Hours, m \in Minutes :
          \E asg \in {s \in Assignments(MaxOptional) : WellFormed(s)} :
             /\ asg # {} => SmallCore(o, d, a, h, m)
             /\ req = Literal(o, d, a, h, m, asg)
    /\ values = EmptyValues
    /\ terr = Nil
    /\ cerr = Nil
    /\ done = {}

(***************************************************************************)
(* The operations a caller invokes on the request.                         *)
(***************************************************************************)
CallToURLValues ==
    /\ values' = ToURLValues(req)
    /\ done' = done \cup {"ToURLValues"}
    /\ UNCHANGED <<req, terr, cerr, sidVars, fetchVars, builderVars, helperVars>>

CallValidate ==
    /\ terr' = Validate(req)
    /\ done' = done \cup {"Validate"}
    /\ UNCHANGED <<req, values, cerr, sidVars, fetchVars, builderVars, helperVars>>

CallValidateFlightPlanRequest ==
    /\ cerr' = ValidateFlightPlanRequest(req)
    /\ done' = done \cup {"ValidateFlightPlanRequest"}
    /\ UNCHANGED <<req, values, terr, sidVars, fetchVars, builderVars, helperVars>>

(***************************************************************************)
(* The static-ID field: encoding a value, receiving a document, decoding.  *)
(***************************************************************************)
\* The bytes static IDs are made of here: plain ones, ones the encoder
\* escapes, a byte that is not valid UTF-8, and the rune U+FFFD.
IDAlphabet == {"A", "_", "\"", "\\", "<", "\n", BadByte, ReplacementChar}

RECURSIVE StringsUpTo(_)
StringsUpTo(n) ==
    IF n = 0 THEN {<<>>}
    ELSE LET P == StringsUpTo(n - 1)
         IN  P \cup {Append(s, c) : s \in {t \in P : Len(t) = n - 1}, c \in IDAlphabet}

\* Documents the service may put in static_id.
WireSamples == {
    <<"\"", "A", "B", "C", "_", "1", "\"">>,
    <<"\"", "\"">>,
    <<"\"", "a", "\\", "u", "0", "0", "3", "c", "b", "\"">>,
    <<"\"", "a", "\\", "n", "\"">>,
    <<"\"", "A", BadByte, "\"">>,
    <<"{", "}">>,
    <<"{", "\"", "a", "\"", ":", "1", "}">>,
    <<"{", "\"", "a", "\"", ":", "{", "}", ",", "\"", "b", "\"", ":", "[", "1", ",", "2", "]", "}">>,
    <<"n", "u", "l", "l">>,
    <<"1", "2", "3">>,
    <<"-", "7">>,
    <<"t", "r", "u", "e">>,
    <<"f", "a", "l", "s", "e">>,
    <<"[", "]">>,
    <<"[", "\"", "A", "\"", "]">>,
    <<>>,
    <<"\"", "A">>,
    <<"{", "\"", "a", "\"", ":", "}">>,
    <<"{", "\"", "a", "\"", "}">>,
    <<"A", "B", "C">> }

IdleStaticID ==
    /\ sid = <<>>
    /\ wire = <<>>
    /\ got = <<>>
    /\ uerr = Nil
    /\ phase = "new"

InitStaticID ==
    /\ sid \in StringsUpTo(MaxIDLen)
    /\ wire = <<>>
    /\ got = <<>>
    /\ uerr = Nil
    /\ phase = "new"

\* json.Marshal reaches the field: wire is what MarshalJSON returns.
Marshal ==
    /\ phase = "new"
    /\ wire' = MarshalJSON(sid)
    /\ phase' = "encoded"
    /\ UNCHANGED <<sid, got, uerr, reqVars, fetchVars, builderVars, helperVars>>

\* The service sends a document of its own.
Receive ==
    /\ phase = "new"
    /\ sid = <<>>
    /\ \E w \in WireSamples : wire' = w
    /\ phase' = "received"
    /\ UNCHANGED <<sid, got, uerr, reqVars, fetchVars, builderVars, helperVars>>

\* json.Unmarshal reaches the field and calls UnmarshalJSON(wire) on it.
Unmarshal ==
    /\ phase \in {"encoded", "received"}
    /\ got' = UnmarshalJSON(got, wire).Value
    /\ uerr' = UnmarshalJSON(got, wire).err
    /\ phase' = IF phase = "encoded" THEN "roundtrip" ELSE "decoded"
    /\ UNCHANGED <<sid, wire, reqVars, fetchVars, builderVars, helperVars>>

(***************************************************************************)
(* strings                                                                 *)
(***************************************************************************)
\* strings.IndexByte: the first position of c in s, 0 when there is none.
IndexByte(s, c) ==
    IF \E i \in 1..Len(s) : s[i] = c
    THEN CHOOSE i \in 1..Len(s) : s[i] = c /\ \A j \in 1..(i - 1) : s[j] # c
    ELSE 0

\* strings.Split(s, sep) for a separator of one byte.
RECURSIVE Split(_, _)
Split(s, sep) ==
    IF IndexByte(s, sep) = 0 THEN <<s>>
    ELSE <<SubSeq(s, 1, IndexByte(s, sep) - 1)>>
         \o Split(SubSeq(s, IndexByte(s, sep) + 1, Len(s)), sep)

\* unicode.IsSpace on the bytes of ASCII.
IsSpace(c) == c \in {" ", "\t", "\n", "\r", "\f"}

\* strings.TrimSpace
RECURSIVE TrimLeft(_)
TrimLeft(s) == IF s # <<>> /\ IsSpace(Head(s)) THEN TrimLeft(Tail(s)) ELSE s

RECURSIVE TrimRight(_)
TrimRight(s) ==
    IF s # <<>> /\ IsSpace(s[Len(s)]) THEN TrimRight(SubSeq(s, 1, Len(s) - 1)) ELSE s

TrimSpace(s) == TrimRight(TrimLeft(s))

\* strings.Fields: the runs of bytes between white space.
RECURSIVE Fields(_)
Fields(s) ==
    LET t == TrimLeft(s)
        n == IF \E i \in 1..Len(t) : IsSpace(t[i])
             THEN (CHOOSE i \in 1..Len(t) : IsSpace(t[i]) /\ \A j \in 1..(i - 1) : ~IsSpace(t[j])) - 1
             ELSE Len(t)
    IN  IF t = <<>> THEN <<>>
        ELSE <<SubSeq(t, 1, n)>> \o Fields(SubSeq(t, n + 1, Len(t)))

UpperOf == [a |-> "A", b |-> "B", c |-> "C", d |-> "D", e |-> "E", f |-> "F", g |-> "G",
            h |-> "H", i |-> "I", j |-> "J", k |-> "K", l |-> "L", m |-> "M", n |-> "N",
            o |-> "O", p |-> "P", q |-> "Q", r |-> "R", s |-> "S", t |-> "T", u |-> "U",
            v |-> "V", w |-> "W", x |-> "X", y |-> "Y", z |-> "Z"]

\* strings.ToUpper
ToUpper(s) == [i \in 1..Len(s) |-> IF s[i] \in DOMAIN UpperOf THEN UpperOf[s[i]] ELSE s[i]]

\* strings.HasPrefix and strings.TrimPrefix
HasPrefix(s, prefix) == Len(s) >= Len(prefix) /\ SubSeq(s, 1, Len(prefix)) = prefix
TrimPrefix(s, prefix) == IF HasPrefix(s, prefix) THEN SubSeq(s, Len(prefix) + 1, Len(s)) ELSE s

(***************************************************************************)
(* net/url: url.Values.Encode and url.QueryEscape                          *)
(***************************************************************************)
\* The bytes url.QueryEscape leaves as they are.
Unreserved ==
    {"A", "B", "C", "D", "E", "F", "G", "H", "I", "J", "K", "L", "M", "N", "O", "P",
     "Q", "R", "S", "T", "U", "V", "W", "X", "Y", "Z",
     "a", "b", "c", "d", "e", "f", "g", "h", "i", "j", "k", "l", "m", "n", "o", "p",
     "q", "r", "s", "t", "u", "v", "w", "x", "y", "z",
     "0", "1", "2", "3", "4", "5", "6", "7", "8", "9", "-", "_", ".", "~"}

\* The other bytes: a space becomes "+", any other byte "%" and two hex digits.
EscapeByte(c) ==
    CASE c \in Unreserved -> <<c>>
      [] c = " " -> <<"+">>
      [] c = "\t" -> <<"%", "0", "9">>
      [] c = "!" -> <<"%", "2", "1">>
      [] c = "\"" -> <<"%", "2", "2">>
      [] c = "#" -> <<"%", "2", "3">>
      [] c = "$" -> <<"%", "2", "4">>
      [] c = "%" -> <<"%", "2", "5">>
      [] c = "&" -> <<"%", "2", "6">>
      [] c = "'" -> <<"%", "2", "7">>
      [] c = "(" -> <<"%", "2", "8">>
      [] c = ")" -> <<"%", "2", "9">>
      [] c = "*" -> <<"%", "2", "A">>
      [] c = "+" -> <<"%", "2", "B">>
      [] c = "," -> <<"%", "2", "C">>
      [] c = "/" -> <<"%", "2", "F">>
      [] c = ":" -> <<"%", "3", "A">>
      [] c = ";" -> <<"%", "3", "B">>
      [] c = "<" -> <<"%", "3", "C">>
      [] c = "=" -> <<"%", "3", "D">>
      [] c = ">" -> <<"%", "3", "E">>
      [] c = "?" -> <<"%", "3", "F">>
      [] c = "@" -> <<"%", "4", "0">>
      [] c = "[" -> <<"%", "5", "B">>
      [] c = "\\" -> <<"%", "5", "C">>
      [] c = "]" -> <<"%", "5", "D">>
      [] c = "{" -> <<"%", "7", "B">>
      [] c = "|" -> <<"%", "7", "C">>
      [] c = "}" -> <<"%", "7", "D">>
      [] c = BadByte -> <<"%", "F", "F">>

RECURSIVE QueryEscape(_)
QueryEscape(s) ==
    IF s = <<>> THEN <<>> ELSE EscapeByte(Head(s)) \o QueryEscape(Tail(s))

\* The bytes of the parameter names of the source.
KeyChars == [
    acdata |-> <<"a", "c", "d", "a", "t", "a">>,
    addedfuel |-> <<"a", "d", "d", "e", "d", "f", "u", "e", "l">>,
    addedfuel_units |-> <<"a", "d", "d", "e", "d", "f", "u", "e", "l", "_", "u", "n", "i", "t", "s">>,
    airline |-> <<"a", "i", "r", "l", "i", "n", "e">>,
    altn |-> <<"a", "l", "t", "n">>,
    altn_1_id |-> <<"a", "l", "t", "n", "_", "1", "_", "i", "d">>,
    altn_1_route |-> <<"a", "l", "t", "n", "_", "1", "_", "r", "o", "u", "t", "e">>,
    altn_1_rwy |-> <<"a", "l", "t", "n", "_", "1", "_", "r", "w", "y">>,
    altn_2_id |-> <<"a", "l", "t", "n", "_", "2", "_", "i", "d">>,
    altn_2_route |-> <<"a", "l", "t", "n", "_", "2", "_", "r", "o", "u", "t", "e">>,
    altn_2_rwy |-> <<"a", "l", "t", "n", "_", "2", "_", "r", "w", "y">>,
    altn_3_id |-> <<"a", "l", "t", "n", "_", "3", "_", "i", "d">>,
    altn_3_route |-> <<"a", "l", "t", "n", "_", "3", "_", "r", "o", "u", "t", "e">>,
    altn_3_rwy |-> <<"a", "l", "t", "n", "_", "3", "_", "r", "w", "y">>,
    altn_4_id |-> <<"a", "l", "t", "n", "_", "4", "_", "i", "d">>,
    altn_4_route |-> <<"a", "l", "t", "n", "_", "4", "_", "r", "o", "u", "t", "e">>,
    altn_4_rwy |-> <<"a", "l", "t", "n", "_", "4", "_", "r", "w", "y">>,
    altn_avoid |-> <<"a", "l", "t", "n", "_", "a", "v", "o", "i", "d">>,
    altn_count |-> <<"a", "l", "t", "n", "_", "c", "o", "u", "n", "t">>,
    api_key |-> <<"a", "p", "i", "_", "k", "e", "y">>,
    callsign |-> <<"c", "a", "l", "l", "s", "i", "g", "n">>,
    cargo |-> <<"c", "a", "r", "g", "o">>,
    civalue |-> <<"c", "i", "v", "a", "l", "u", "e">>,
    climb |-> <<"c", "l", "i", "m", "b">>,
    contpct |-> <<"c", "o", "n", "t", "p", "c", "t">>,
    cpt |-> <<"c", "p", "t">>,
    cruise |-> <<"c", "r", "u", "i", "s", "e">>,
    date |-> <<"d", "a", "t", "e">>,
    deph |-> <<"d", "e", "p", "h">>,
    depm |-> <<"d", "e", "p", "m">>,
    descent |-> <<"d", "e", "s", "c", "e", "n", "t">>,
    dest |-> <<"d", "e", "s", "t">>,
    destrwy |-> <<"d", "e", "s", "t", "r", "w", "y">>,
    dxname |-> <<"d", "x", "n", "a", "m", "e">>,
    etops |-> <<"e", "t", "o", "p", "s">>,
    etopsrule |-> <<"e", "t", "o", "p", "s", "r", "u", "l", "e">>,
    fin |-> <<"f", "i", "n">>,
    find_sidstar |-> <<"f", "i", "n", "d", "_", "s", "i", "d", "s", "t", "a", "r">>,
    firnot |-> <<"f", "i", "r", "n", "o", "t">>,
    fl |-> <<"f", "l">>,
    fltnum |-> <<"f", "l", "t", "n", "u", "m">>,
    fuelfactor |-> <<"f", "u", "e", "l", "f", "a", "c", "t", "o", "r">>,
    json |-> <<"j", "s", "o", "n">>,
    manualrmk |-> <<"m", "a", "n", "u", "a", "l", "r", "m", "k">>,
    manualzfw |-> <<"m", "a", "n", "u", "a", "l", "z", "f", "w">>,
    maps |-> <<"m", "a", "p", "s">>,
    navlog |-> <<"n", "a", "v", "l", "o", "g">>,
    notams |-> <<"n", "o", "t", "a", "m", "s">>,
    omit_sids |-> <<"o", "m", "i", "t", "_", "s", "i", "d", "s">>,
    omit_stars |-> <<"o", "m", "i", "t", "_", "s", "t", "a", "r", "s">>,
    orig |-> <<"o", "r", "i", "g">>,
    origrwy |-> <<"o", "r", "i", "g", "r", "w", "y">>,
    pax |-> <<"p", "a", "x">>,
    pid |-> <<"p", "i", "d">>,
    planformat |-> <<"p", "l", "a", "n", "f", "o", "r", "m", "a", "t">>,
    reg |-> <<"r", "e", "g">>,
    resvrule |-> <<"r", "e", "s", "v", "r", "u", "l", "e">>,
    route |-> <<"r", "o", "u", "t", "e">>,
    selcal |-> <<"s", "e", "l", "c", "a", "l">>,
    static_id |-> <<"s", "t", "a", "t", "i", "c", "_", "i", "d">>,
    steh |-> <<"s", "t", "e", "h">>,
    stem |-> <<"s", "t", "e", "m">>,
    stepclimbs |-> <<"s", "t", "e", "p", "c", "l", "i", "m", "b", "s">>,
    taxiin |-> <<"t", "a", "x", "i", "i", "n">>,
    taxiout |-> <<"t", "a", "x", "i", "o", "u", "t">>,
    tlr |-> <<"t", "l", "r">>,
    type |-> <<"t", "y", "p", "e">>,
    units |-> <<"u", "n", "i", "t", "s">>,
    userid |-> <<"u", "s", "e", "r", "i", "d">>,
    username |-> <<"u", "s", "e", "r", "n", "a", "m", "e">> ]

\* Encode writes the keys in sorted order: the parameter names, sorted bytewise.
SortedKeys == <<
    "acdata", "addedfuel", "addedfuel_units", "airline", "altn", "altn_1_id",
    "altn_1_route", "altn_1_rwy", "altn_2_id", "altn_2_route", "altn_2_rwy", "altn_3_id",
    "altn_3_route", "altn_3_rwy", "altn_4_id", "altn_4_route", "altn_4_rwy", "altn_avoid",
    "altn_count", "api_key", "callsign", "cargo", "civalue", "climb",
    "contpct", "cpt", "cruise", "date", "deph", "depm",
    "descent", "dest", "destrwy", "dxname", "etops", "etopsrule",
    "fin", "find_sidstar", "firnot", "fl", "fltnum", "fuelfactor",
    "json", "manualrmk", "manualzfw", "maps", "navlog", "notams",
    "omit_sids", "omit_stars", "orig", "origrwy", "pax", "pid",
    "planformat", "reg", "resvrule", "route", "selcal", "static_id",
    "steh", "stem", "stepclimbs", "taxiin", "taxiout", "tlr",
    "type", "units", "userid", "username" >>

RECURSIVE JoinPairs(_)
JoinPairs(pairs) ==
    IF pairs = <<>> THEN <<>>
    ELSE IF Len(pairs) = 1 THEN pairs[1]
    ELSE pairs[1] \o <<"&">> \o JoinPairs(Tail(pairs))

\* The "key=value" pairs of one key, one per value, joined by "&".
PairsOf(v, k) ==
    JoinPairs([i \in 1..Len(v[k]) |-> QueryEscape(KeyChars[k]) \o <<"=">> \o QueryEscape(v[k][i])])

\* func (v Values) Encode() string
Encode(v) ==
    LET present == SelectSeq(SortedKeys, LAMBDA k : k \in DOMAIN v)
    IN  JoinPairs([i \in 1..Len(present) |-> PairsOf(v, present[i])])

\* Mutant: the JSON flag is written when it is false as well.
ToQueryParams_AlwaysJSON(fr) ==
    LET adds == (IF fr.UserID # <<>> THEN << <<"userid", fr.UserID>> >> ELSE <<>>)
                \o (IF fr.Username # <<>> THEN << <<"username", fr.Username>> >> ELSE <<>>)
                \o (IF fr.StaticID # <<>> THEN << <<"static_id", fr.StaticID>> >> ELSE <<>>)
                \o << <<"json", IF fr.JSON THEN <<"1">> ELSE <<"0">> >> >>
    IN  IF adds = <<>> THEN <<>> ELSE <<"?">> \o Encode(AfterAdds(adds))

\* func (fr *FetchRequest) ToQueryParams() string
ToQueryParams(fr) ==
    LET adds == (IF fr.UserID # <<>> THEN << <<"userid", fr.UserID>> >> ELSE <<>>)
                \o (IF fr.Username # <<>> THEN << <<"username", fr.Username>> >> ELSE <<>>)
                \o (IF fr.StaticID # <<>> THEN << <<"static_id", fr.StaticID>> >> ELSE <<>>)
                \o (IF fr.JSON THEN << <<"json", <<"1">> >> >> ELSE <<>>)
    IN  IF adds = <<>> THEN <<>> ELSE <<"?">> \o Encode(AfterAdds(adds))

endpointXMLFetcher == <<"/", "a", "p", "i", "/", "x", "m", "l", ".", "f", "e", "t", "c", "h",
                        "e", "r", ".", "p", "h", "p">>
endpointInputsList == <<"/", "a", "p", "i", "/", "i", "n", "p", "u", "t", "s", ".", "l", "i",
                        "s", "t", ".", "j", "s", "o", "n">>
endpointGenerate == <<"/", "s", "y", "s", "t", "e", "m", "/", "d", "i", "s", "p", "a", "t",
                      "c", "h", ".", "p", "h", "p">>

\* Mutant: the fetch URL carries the credential, as the generation URL does.
FetchURL_WithAPIKey(c, fr) ==
    c.BaseURL \o endpointXMLFetcher \o ToQueryParams(fr)
        \o (IF c.APIKey # <<>>
            THEN (IF ToQueryParams(fr) = <<>> THEN <<"?">> ELSE <<"&">>)
                 \o KeyChars["api_key"] \o <<"=">> \o QueryEscape(c.APIKey)
            ELSE <<>>)

\* fullURL := c.BaseURL + endpointXMLFetcher + req.ToQueryParams()
FetchURL(c, fr) == c.BaseURL \o endpointXMLFetcher \o ToQueryParams(fr)

\* fullURL := c.BaseURL + endpointInputsList
OptionsURL(c) == c.BaseURL \o endpointInputsList

\* Mutant: the path of the endpoint is left out.
GenerateFlightPlanURL_NoEndpoint(c, r) ==
    LET adds == Calls(r) \o (IF c.APIKey # <<>> THEN << <<"api_key", c.APIKey>> >> ELSE <<>>)
    IN  c.BaseURL \o <<"?">> \o Encode(AfterAdds(adds))

\* func (c *Client) GenerateFlightPlanURL(req *types.FlightPlanRequest) string
GenerateFlightPlanURL(c, r) ==
    LET adds == Calls(r) \o (IF c.APIKey # <<>> THEN << <<"api_key", c.APIKey>> >> ELSE <<>>)
    IN  c.BaseURL \o endpointGenerate \o <<"?">> \o Encode(AfterAdds(adds))
(***************************************************************************)
(* The fetch operations of the client.                                     *)
(***************************************************************************)
DefaultBaseURL == <<"h", "t", "t", "p", "s", ":", "/", "/", "w", "w", "w", ".",
                    "s", "i", "m", "b", "r", "i", "e", "f", ".", "c", "o", "m">>

\* A base URL that url.Parse rejects (a space in the host name).
BadBaseURL == <<"h", "t", "t", "p", ":", "/", "/", "b", "a", "d", " ", "h", "o", "s", "t">>

\* http.NewRequest parses the URL; of the URL the client builds, only the base
\* can fail to parse (the query string is escaped by url.Values.Encode).
URLParses(base) == \A i \in 1..Len(base) : base[i] # " "

StatusOK == 200

Statuses == {StatusOK, 201, 404, 500}

\* Response bodies, by what they hold.
Bodies == {
    [fmt |-> "json", doc |-> "plan"],      \* an object holding a flight plan
    [fmt |-> "json", doc |-> "error"],     \* {"message": "...", "code": 1}
    [fmt |-> "json", doc |-> "null"],      \* null
    [fmt |-> "json", doc |-> "array"],     \* valid JSON that is no object
    [fmt |-> "json", doc |-> "mistyped"],  \* an object whose members have other types
    [fmt |-> "xml", doc |-> "plan"],       \* <SimBrief>...</SimBrief>
    [fmt |-> "xml", doc |-> "error"],      \* <error>...</error>
    [fmt |-> "xml", doc |-> "other"],      \* a well-formed document with another root
    [fmt |-> "text", doc |-> "html"],      \* neither JSON nor XML
    [fmt |-> "text", doc |-> "empty"] }    \* no bytes at all

\* json.Unmarshal(body, &apiErr): an object decodes (unknown members are
\* skipped), null leaves the struct zero.
JSONDecodesAPIError(body) == body.fmt = "json" /\ body.doc \in {"plan", "error", "null"}

\* xml.Unmarshal(body, &apiErr): XMLName demands the root element <error>.
XMLDecodesAPIError(body) == body.fmt = "xml" /\ body.doc = "error"

\* json.Unmarshal(body, &flightPlan)
JSONDecodesFlightPlan(body) == body.fmt = "json" /\ body.doc \in {"plan", "error", "null"}

\* xml.Unmarshal(body, &flightPlan): XMLName demands the root element <SimBrief>.
XMLDecodesFlightPlan(body) == body.fmt = "xml" /\ body.doc = "plan"

\* Return values.  A result is nil, a *FlightPlanResponse or the body bytes.
NoResult == "nil"
Returns(result, err) == [result |-> result, err |-> err]

ErrCreateRequest == "failed to create request"
ErrExecuteRequest == "failed to execute request"
ErrReadBody == "failed to read response body"
ErrStatus == "API request failed with status"
ErrDecodeJSON == "failed to decode JSON response"
ErrDecodeXML == "failed to decode XML response"
APIError == "types.APIError"

\* Mutant: an error body that does not decode falls through to the decoding of
\* the flight plan instead of returning the status error.
FinishFetchFlightPlan_FallsThrough(r, response) ==
    IF response.status # StatusOK /\ r.JSON /\ JSONDecodesAPIError(response.body)
    THEN Returns(NoResult, APIError)
    ELSE IF response.status # StatusOK /\ ~r.JSON /\ XMLDecodesAPIError(response.body)
    THEN Returns(NoResult, APIError)
    ELSE IF r.JSON
         THEN IF JSONDecodesFlightPlan(response.body)
              THEN Returns("FlightPlanResponse", Nil)
              ELSE Returns(NoResult, ErrDecodeJSON)
         ELSE IF XMLDecodesFlightPlan(response.body)
              THEN Returns("FlightPlanResponse", Nil)
              ELSE Returns(NoResult, ErrDecodeXML)

\* fetchFlightPlan from the status check on, the body having been read.
FinishFetchFlightPlan(r, response) ==
    IF response.status # StatusOK
    THEN IF r.JSON
         THEN IF JSONDecodesAPIError(response.body)
              THEN Returns(NoResult, APIError)
              ELSE Returns(NoResult, ErrStatus)
         ELSE IF XMLDecodesAPIError(response.body)
              THEN Returns(NoResult, APIError)
              ELSE Returns(NoResult, ErrStatus)
    ELSE IF r.JSON
         THEN IF JSONDecodesFlightPlan(response.body)
              THEN Returns("FlightPlanResponse", Nil)
              ELSE Returns(NoResult, ErrDecodeJSON)
         ELSE IF XMLDecodesFlightPlan(response.body)
              THEN Returns("FlightPlanResponse", Nil)
              ELSE Returns(NoResult, ErrDecodeXML)

\* GetFlightPlanXML from the status check on, the body having been read.
FinishGetFlightPlanXML(r, response) ==
    IF response.status # StatusOK
    THEN IF XMLDecodesAPIError(response.body)
         THEN Returns(NoResult, APIError)
         ELSE Returns(NoResult, ErrStatus)
    ELSE Returns("body", Nil)

ErrDecodeOptions == "failed to decode response"

\* json.NewDecoder(resp.Body).Decode(&options)
JSONDecodesOptions(body) == body.fmt = "json" /\ body.doc \in {"plan", "error", "null"}

\* GetSupportedOptions from the status check on.
FinishGetSupportedOptions(response) ==
    IF response.status # StatusOK THEN Returns(NoResult, ErrStatus)
    ELSE IF JSONDecodesOptions(response.body) THEN Returns("SupportedOptions", Nil)
    ELSE Returns(NoResult, ErrDecodeOptions)

\* Requests a generation URL is built for.
URLRequests == {
    ZeroRequest,
    NewFlightPlanRequest(<<"K", "J", "F", "K">>, <<"K", "L", "A", "X">>, <<"B", "7", "3", "8">>),
    [NewFlightPlanRequest(<<"K", "J", "F", "K">>, <<"K", "L", "A", "X">>, <<"B", "7", "3", "8">>)
        EXCEPT !.Route = <<"A", " ", "B">>, !.NavLog = <<TRUE>>, !.Passengers = 150],
    [ZeroRequest EXCEPT !.ManualRemarks = <<"&", "a", "p", "i", "_", "k", "e", "y", "=", "x">>] }

UserIDs == {<<>>, <<"1", "2", "3">>}
\* The last one tries to smuggle a parameter into the query string.
Usernames == {<<>>, <<"b", "o", "b">>,
              <<"a", "&", "a", "p", "i", "_", "k", "e", "y", "=", "k">>}
StaticIDs == {<<>>, <<"A", "_", "1">>}
APIKeys == {<<>>, <<"k", "e", "y">>}

FetchRequest(userID, username, staticID, json) ==
    [UserID |-> userID, Username |-> username, StaticID |-> staticID, JSON |-> json]

NoResponse == [status |-> 0, body |-> [fmt |-> "text", doc |-> "empty"]]

\* Most SetUserAgent calls made on one client.
MaxAgents == 2

UserAgents == {<<"A", "/", "1">>, <<"B", "/", "2">>}

\* The User-Agent header net/http writes when the request has none.
DefaultUserAgent == <<"G", "o", "-", "h", "t", "t", "p", "-", "c", "l", "i", "e", "n", "t",
                      "/", "1", ".", "1">>

\* No header: no request was sent.
NoHeader == <<>>

\* NewClientWithConfig(apiKey, baseURL, nil); NewClient(apiKey) has the default
\* base URL.  Transport is the chain of userAgentTransport wrappers around the
\* default transport, the outermost first: the UserAgent field of each.
NewClientWithConfig(apiKey, baseURL) ==
    [APIKey |-> apiKey,
     BaseURL |-> IF baseURL = <<>> THEN DefaultBaseURL ELSE baseURL,
     Transport |-> <<>>]

NewClient(apiKey) == NewClientWithConfig(apiKey, DefaultBaseURL)

\* No operation is in progress on the client c.
ClientIdle(c) ==
    /\ client = c
    /\ given = FetchRequest(<<>>, <<>>, <<>>, FALSE)
    /\ freq = FetchRequest(<<>>, <<>>, <<>>, FALSE)
    /\ op = "none"
    /\ pc = "idle"
    /\ resp = NoResponse
    /\ ret = Returns(NoResult, Nil)
    /\ sent = 0
    /\ header = NoHeader
    /\ url = <<>>

IdleFetch == ClientIdle(NewClient(<<>>))

InitFetch == \E k \in APIKeys, b \in {<<>>, BadBaseURL} : ClientIdle(NewClientWithConfig(k, b))

\* func (c *Client) SetUserAgent(userAgent string): the transport of the
\* HTTPClient is wrapped once more.
SetUserAgent ==
    /\ pc = "idle"
    /\ Len(client.Transport) < MaxAgents
    /\ \E userAgent \in UserAgents :
          client' = [client EXCEPT !.Transport = <<userAgent>> \o @]
    /\ UNCHANGED <<given, freq, op, pc, resp, ret, sent, header, url,
                   reqVars, sidVars, builderVars, helperVars>>

\* func (t *userAgentTransport) RoundTrip(req): the wrapper sets the header and
\* hands the request to the transport it wraps; the default transport sends
\* the header it finds, or its own.
RECURSIVE RoundTrip(_, _)
RoundTrip(transport, h) ==
    IF transport = <<>> THEN (IF h = NoHeader THEN DefaultUserAgent ELSE h)
    ELSE RoundTrip(Tail(transport), Head(transport))

\* The operation up to HTTPClient.Do: the URL is built and http.NewRequest called.
Begin(name, arg, r, fullURL) ==
    /\ pc = "idle"
    /\ op' = name
    /\ given' = arg
    /\ freq' = r
    /\ header' = NoHeader
    /\ resp' = NoResponse
    /\ url' = fullURL
    /\ sent' = 0
    /\ IF URLParses(fullURL)
       THEN pc' = "do" /\ ret' = Returns(NoResult, Nil)
       ELSE pc' = "returned" /\ ret' = Returns(NoResult, ErrCreateRequest)
    /\ UNCHANGED <<client, reqVars, sidVars, builderVars, helperVars>>

GetFlightPlanByUserID ==
    \E u \in UserIDs : LET r == FetchRequest(u, <<>>, <<>>, TRUE)
        IN  Begin("fetchFlightPlan", r, r, FetchURL(client, r))

GetFlightPlanByUsername ==
    \E u \in Usernames : LET r == FetchRequest(<<>>, u, <<>>, TRUE)
        IN  Begin("fetchFlightPlan", r, r, FetchURL(client, r))

GetFlightPlanByStaticID ==
    \E u \in UserIDs, s \in StaticIDs :
        LET r == FetchRequest(u, <<>>, s, TRUE)
        IN  Begin("fetchFlightPlan", r, r, FetchURL(client, r))

\* fetchFlightPlan called with a request of the XML format (JSON false).
FetchFlightPlanXMLFormat ==
    \E u \in UserIDs : LET r == FetchRequest(u, <<>>, <<>>, FALSE)
        IN  Begin("fetchFlightPlan", r, r, FetchURL(client, r))

\* Mutant: the JSON flag of the caller's request is left as it is.
GetFlightPlanXML_KeepsFlag ==
    \E u \in UserIDs, n \in Usernames, s \in StaticIDs, j \in BOOLEAN :
        LET r == FetchRequest(u, n, s, j)
        IN  Begin("GetFlightPlanXML", FetchRequest(u, n, s, j), r, FetchURL(client, r))

\* GetFlightPlanXML(req): req.JSON = false comes first.
GetFlightPlanXML ==
    \E u \in UserIDs, n \in Usernames, s \in StaticIDs, j \in BOOLEAN :
        LET r == [FetchRequest(u, n, s, j) EXCEPT !.JSON = FALSE]
        IN  Begin("GetFlightPlanXML", FetchRequest(u, n, s, j), r, FetchURL(client, r))

\* GetSupportedOptions()
GetSupportedOptions ==
    Begin("GetSupportedOptions", FetchRequest(<<>>, <<>>, <<>>, FALSE),
          FetchRequest(<<>>, <<>>, <<>>, FALSE), OptionsURL(client))

\* req.ToQueryParams(), called by a caller: a query string is built.
CallToQueryParams ==
    /\ pc = "idle"
    /\ \E u \in UserIDs, n \in Usernames, s \in StaticIDs, j \in BOOLEAN :
          /\ given' = FetchRequest(u, n, s, j)
          /\ freq' = FetchRequest(u, n, s, j)
          /\ url' = ToQueryParams(FetchRequest(u, n, s, j))
    /\ op' = "ToQueryParams"
    /\ UNCHANGED <<client, pc, resp, ret, sent, header, reqVars, sidVars, builderVars, helperVars>>

\* GenerateFlightPlanURL(req): a URL is built, nothing is requested.
CallGenerateFlightPlanURL ==
    /\ pc = "idle"
    /\ \E r \in URLRequests : url' = GenerateFlightPlanURL(client, r)
    /\ op' = "GenerateFlightPlanURL"
    /\ UNCHANGED <<client, given, freq, pc, resp, ret, sent, header, reqVars, sidVars, builderVars, helperVars>>

\* Mutant: the parameter api_key is added to the mapping the caller holds.
GenerateURLForRequest_SharedMapping ==
    /\ pc = "idle"
    /\ url' = GenerateFlightPlanURL(client, req)
    /\ values' = IF "ToURLValues" \in done /\ client.APIKey # <<>>
                 THEN Add(values, "api_key", client.APIKey) ELSE values
    /\ done' = done \cup {"GenerateFlightPlanURL"}
    /\ UNCHANGED <<req, terr, cerr, client, given, freq, op, pc, resp, ret, sent, header,
                   sidVars, builderVars, helperVars>>

\* GenerateFlightPlanURL(req) for the request the caller has constructed: the
\* mapping it encodes is a new one, made by req.ToURLValues().
GenerateURLForRequest ==
    /\ pc = "idle"
    /\ url' = GenerateFlightPlanURL(client, req)
    /\ done' = done \cup {"GenerateFlightPlanURL"}
    /\ UNCHANGED <<req, values, terr, cerr, client, given, freq, op, pc, resp, ret, sent, header,
                   sidVars, builderVars, helperVars>>

\* Mutant: after a transport failure the request is sent once more.
TransportFails_Retries ==
    /\ pc = "do"
    /\ sent' = sent + 1
    /\ header' = RoundTrip(client.Transport, NoHeader)
    /\ IF sent = 0 THEN pc' = "do" /\ ret' = ret
       ELSE pc' = "returned" /\ ret' = Returns(NoResult, ErrExecuteRequest)
    /\ UNCHANGED <<client, given, freq, op, resp, url, reqVars, sidVars, builderVars, helperVars>>

\* HTTPClient.Do returns an error: no connection, a timeout.
TransportFails ==
    /\ pc = "do"
    /\ pc' = "returned"
    /\ ret' = Returns(NoResult, ErrExecuteRequest)
    /\ sent' = sent + 1
    /\ header' = RoundTrip(client.Transport, NoHeader)
    /\ UNCHANGED <<client, given, freq, op, resp, url, reqVars, sidVars, builderVars, helperVars>>

\* HTTPClient.Do returns a response.
Respond ==
    /\ pc = "do"
    /\ \E s \in Statuses, b \in Bodies : resp' = [status |-> s, body |-> b]
    /\ pc' = "read"
    /\ sent' = sent + 1
    /\ header' = RoundTrip(client.Transport, NoHeader)
    /\ UNCHANGED <<client, given, freq, op, ret, url, reqVars, sidVars, builderVars, helperVars>>

\* Reading resp.Body returns an error.  GetSupportedOptions checks the status
\* first: it drops the error of io.ReadAll on the failure path, and the Decoder
\* reports it on the success path.
ReadFails ==
    /\ pc = "read"
    /\ pc' = "returned"
    /\ ret' = IF op # "GetSupportedOptions" THEN Returns(NoResult, ErrReadBody)
              ELSE IF resp.status # StatusOK THEN Returns(NoResult, ErrStatus)
              ELSE Returns(NoResult, ErrDecodeOptions)
    /\ UNCHANGED <<client, given, freq, op, resp, url, sent, header, reqVars, sidVars, builderVars, helperVars>>

\* The body is read; the status is checked and the body decoded.
ReadBody ==
    /\ pc = "read"
    /\ pc' = "returned"
    /\ ret' = IF op = "fetchFlightPlan" THEN FinishFetchFlightPlan(freq, resp)
              ELSE IF op = "GetFlightPlanXML" THEN FinishGetFlightPlanXML(freq, resp)
              ELSE FinishGetSupportedOptions(resp)
    /\ UNCHANGED <<client, given, freq, op, resp, url, sent, header, reqVars, sidVars, builderVars, helperVars>>

\* The caller takes the return values and the locals of the call are gone; the
\* client can be used again.
Return ==
    /\ pc = "returned"
    /\ pc' = "idle"
    /\ op' = "none"
    /\ given' = FetchRequest(<<>>, <<>>, <<>>, FALSE)
    /\ freq' = FetchRequest(<<>>, <<>>, <<>>, FALSE)
    /\ header' = NoHeader
    /\ resp' = NoResponse
    /\ ret' = Returns(NoResult, Nil)
    /\ url' = <<>>
    /\ sent' = 0
    /\ UNCHANGED <<client, reqVars, sidVars, builderVars, helperVars>>

(***************************************************************************)
(* fmt.Sprintf and time.Format, as the builder and the helpers use them.   *)
(***************************************************************************)
\* s with zeros in front up to the width w.
RECURSIVE PadZeros(_, _)
PadZeros(s, w) == IF Len(s) >= w THEN s ELSE PadZeros(<<"0">> \o s, w)

\* Mutant: the number is written without padding.
SprintfPadded_Unpadded(w, n) == Itoa(n)

\* fmt.Sprintf("%0<w>d", n): the sign is part of the width.
SprintfPadded(w, n) ==
    IF n >= 0 THEN PadZeros(NatToStr(n), w)
    ELSE <<"-">> \o PadZeros(NatToStr(-n), w - 1)

MonthAbbr == << <<"J", "a", "n">>, <<"F", "e", "b">>, <<"M", "a", "r">>, <<"A", "p", "r">>,
                <<"M", "a", "y">>, <<"J", "u", "n">>, <<"J", "u", "l">>, <<"A", "u", "g">>,
                <<"S", "e", "p">>, <<"O", "c", "t">>, <<"N", "o", "v">>, <<"D", "e", "c">> >>

\* t.Format("02Jan06"): the day and the last two digits of the year, two digits each.
FormatDate(t) ==
    PadZeros(NatToStr(t.day), 2) \o MonthAbbr[t.month] \o PadZeros(NatToStr(t.year % 100), 2)

(***************************************************************************)
(* FlightPlanBuilder                                                       *)
(***************************************************************************)
\* Most setter calls made on one builder, and most Build calls.
MaxCalls == 2
MaxBuilds == 1

\* The body of the setter called name: what it makes of the request r.
Set(r, name, args) ==
    CASE name = "Route" -> [r EXCEPT !.Route = args[1]]
      [] name = "Airline" -> [r EXCEPT !.Airline = args[1]]
      [] name = "FlightNumber" -> [r EXCEPT !.FlightNumber = args[1]]
      [] name = "Alternate" -> [r EXCEPT !.Alternate = args[1]]
      [] name = "DepartureTime" ->
            [r EXCEPT !.DepartureHour = args[1], !.DepartureMinute = args[2]]
      [] name = "Date" -> [r EXCEPT !.Date = args[1]]
      [] name = "DateFromTime" -> [r EXCEPT !.Date = FormatDate(args[1])]
      [] name = "Altitude" -> [r EXCEPT !.Altitude = args[1]]
      [] name = "AltitudeFromFeet" -> [r EXCEPT !.Altitude = Itoa(args[1])]
      [] name = "AltitudeFromFlightLevel" ->
            [r EXCEPT !.Altitude = <<"F", "L">> \o SprintfPadded(3, args[1])]
      [] name = "Passengers" -> [r EXCEPT !.Passengers = args[1]]
      [] name = "Cargo" -> [r EXCEPT !.Cargo = args[1]]
      [] name = "Units" -> [r EXCEPT !.Units = args[1]]
      [] name = "PlanFormat" -> [r EXCEPT !.PlanFormat = args[1]]
      [] name = "Registration" -> [r EXCEPT !.Registration = args[1]]
      [] name = "CallSign" -> [r EXCEPT !.ATCCallsign = args[1]]
      [] name = "Captain" -> [r EXCEPT !.CaptainName = args[1]]
      [] name = "Dispatcher" -> [r EXCEPT !.DispatcherName = args[1]]
      [] name = "StaticID" -> [r EXCEPT !.StaticID = args[1]]
      [] name = "EnableNavLog" -> [r EXCEPT !.NavLog = <<TRUE>>]
      [] name = "DisableNavLog" -> [r EXCEPT !.NavLog = <<FALSE>>]
      [] name = "EnableETOPS" -> [r EXCEPT !.ETOPS = <<TRUE>>]
      [] name = "EnableStepClimbs" -> [r EXCEPT !.StepClimbs = <<TRUE>>]
      [] name = "CustomAircraftData" -> [r EXCEPT !.AircraftData = args[1]]
      [] name = "TaxiTimes" -> [r EXCEPT !.TaxiOut = args[1], !.TaxiIn = args[2]]
      [] name = "Runways" -> [r EXCEPT !.OriginRunway = args[1], !.DestRunway = args[2]]

IdleBuilder ==
    /\ heap = <<>>
    /\ builder = [request |-> 0]
    /\ calls = <<>>
    /\ returned = <<>>

\* NewFlightPlan(origin, destination, aircraft): a new request, at address 1.
InitBuilder ==
    /\ \E o \in {<<"K", "J", "F", "K">>} :
          /\ heap = <<NewFlightPlanRequest(o, <<"K", "L", "A", "X">>, <<"B", "7", "3", "8">>)>>
          /\ calls = << [name |-> "NewFlightPlan",
                        args |-> <<o, <<"K", "L", "A", "X">>, <<"B", "7", "3", "8">> >>] >>
    /\ builder = [request |-> 1]
    /\ returned = <<>>

\* Mutant: every setter also clears the passenger count.
Setter_ClearsPassengers(name, args) ==
    /\ Len(calls) <= MaxCalls
    /\ heap' = [heap EXCEPT ![builder.request] =
                    [Set(heap[builder.request], name, args) EXCEPT !.Passengers = 0]]
    /\ calls' = Append(calls, [name |-> name, args |-> args])
    /\ UNCHANGED <<builder, returned, reqVars, sidVars, fetchVars, helperVars>>

\* A setter works on the request the builder points to and returns the builder.
Setter(name, args) ==
    /\ Len(calls) <= MaxCalls
    /\ heap' = [heap EXCEPT ![builder.request] = Set(heap[builder.request], name, args)]
    /\ calls' = Append(calls, [name |-> name, args |-> args])
    /\ UNCHANGED <<builder, returned, reqVars, sidVars, fetchVars, helperVars>>

\* One setter call, with an argument a caller may pass.
CallSetter ==
    \/ Setter("Route", << <<"D", "C", "T">> >>)
    \/ Setter("Airline", << <<"A", "A", "L">> >>)
    \/ Setter("FlightNumber", << <<"1", "0", "0">> >>)
    \/ Setter("Alternate", << <<"K", "O", "R", "D">> >>)
    \/ Setter("DepartureTime", <<14, 30>>)
    \/ Setter("Date", << <<"0", "1", "J", "A", "N", "2", "4">> >>)
    \/ \E t \in {[day |-> 15, month |-> 7, year |-> 2023], [day |-> 1, month |-> 1, year |-> 2005]} :
          Setter("DateFromTime", <<t>>)
    \/ Setter("Altitude", << <<"F", "L", "3", "5", "0">> >>)
    \/ \E n \in {34000, -500} : Setter("AltitudeFromFeet", <<n>>)
    \/ \E n \in {340, 50, -5} : Setter("AltitudeFromFlightLevel", <<n>>)
    \/ Setter("Passengers", <<150>>)
    \/ Setter("Cargo", <<[kind |-> "finite", milli |-> 5000]>>)
    \/ Setter("Units", << <<"l", "b", "s">> >>)
    \/ Setter("PlanFormat", << <<"L", "I", "D", "O">> >>)
    \/ Setter("Registration", << <<"N", "1", "2", "3">> >>)
    \/ Setter("CallSign", << <<"A", "A", "L", "1">> >>)
    \/ Setter("Captain", << <<"J", "o", "e">> >>)
    \/ Setter("Dispatcher", << <<"A", "n", "n">> >>)
    \/ Setter("StaticID", << <<"A", "_", "1">> >>)
    \/ Setter("EnableNavLog", <<>>)
    \/ Setter("DisableNavLog", <<>>)
    \/ Setter("EnableETOPS", <<>>)
    \/ Setter("EnableStepClimbs", <<>>)
    \/ Setter("CustomAircraftData", << <<ZeroAircraftData>> >>)
    \/ Setter("TaxiTimes", <<15, 5>>)
    \/ Setter("Runways", << <<"0", "4", "L">>, <<"2", "5", "R">> >>)

\* Build returns b.request: the address the builder holds.  after is the
\* number of calls made on the builder before this one.
Build ==
    /\ Len(returned) < MaxBuilds
    /\ returned' = Append(returned, [ref |-> builder.request,
                                     value |-> heap[builder.request],
                                     after |-> Len(calls)])
    /\ UNCHANGED <<heap, builder, calls, reqVars, sidVars, fetchVars, helperVars>>

(***************************************************************************)
(* The helpers: RouteHelper and TimeHelper.                                *)
(***************************************************************************)
\* Most pieces an argument string is put together from, and the highest
\* flight level that is formatted.
MaxPieces == 3
MaxFlightLevel == 999
\* The durations that are formatted run from -MaxNegative to MaxMinutes minutes.
MaxMinutes == 1500
MaxNegative == 65

\* Go's integer division: the quotient is truncated toward zero.
Quot(a, b) == IF a >= 0 THEN a \div b ELSE -((-a) \div b)

\* A []string: nil, or a slice with its items.
Slice(items) == [nil |-> FALSE, items |-> items]

\* Mutant: the part after the loop is missing, the result is what Split on a
\* space gives.
ParseRoute_SplitOnSpace(route) ==
    IF TrimSpace(route) = <<>> THEN Slice(<<>>)
    ELSE Slice(Split(TrimSpace(route), " "))

\* func (rh *RouteHelper) ParseRoute(route string) []string
ParseRoute(route) ==
    LET parts == Fields(TrimSpace(route))
        kept  == SelectSeq(parts, LAMBDA part : TrimSpace(part) # <<>>)
    IN  IF TrimSpace(route) = <<>> THEN Slice(<<>>)
        ELSE Slice([i \in 1..Len(kept) |-> TrimSpace(kept[i])])

\* Mutant: the feet are not divided by 100.
FormatFlightLevel_Feet(feet) == <<"F", "L">> \o SprintfPadded(3, feet)

\* func (rh *RouteHelper) FormatFlightLevel(feet int) string
FormatFlightLevel(feet) == <<"F", "L">> \o SprintfPadded(3, Quot(feet, 100))

ErrFlightLevelFormat == "invalid flight level format"
ErrAltitudeFormat == "invalid altitude format"

\* Mutant: the input is not uppercased.
ParseFlightLevel_CaseSensitive(flStr) ==
    LET s == TrimSpace(flStr)
    IN  IF HasPrefix(s, <<"F", "L">>)
        THEN IF Atoi(TrimPrefix(s, <<"F", "L">>)).ok
             THEN [val |-> Atoi(TrimPrefix(s, <<"F", "L">>)).val * 100, err |-> Nil]
             ELSE [val |-> 0, err |-> ErrFlightLevelFormat]
        ELSE IF Atoi(s).ok THEN [val |-> Atoi(s).val, err |-> Nil]
             ELSE [val |-> 0, err |-> ErrAltitudeFormat]

\* func (rh *RouteHelper) ParseFlightLevel(flStr string) (int, error)
ParseFlightLevel(flStr) ==
    LET s == ToUpper(TrimSpace(flStr))
    IN  IF HasPrefix(s, <<"F", "L">>)
        THEN IF Atoi(TrimPrefix(s, <<"F", "L">>)).ok
             THEN [val |-> Atoi(TrimPrefix(s, <<"F", "L">>)).val * 100, err |-> Nil]
             ELSE [val |-> 0, err |-> ErrFlightLevelFormat]
        ELSE IF Atoi(s).ok THEN [val |-> Atoi(s).val, err |-> Nil]
             ELSE [val |-> 0, err |-> ErrAltitudeFormat]

ErrTimeFormat == "invalid time format, expected HH:MM"
ErrInvalidHour == "invalid hour"
ErrInvalidMinute == "invalid minute"
ErrHourRange == "hour must be between 0 and 23"
ErrMinuteRange == "minute must be between 0 and 59"

TimeOf(hour, minute, err) == [hour |-> hour, minute |-> minute, err |-> err]

\* Mutant: the range of the minute is checked before the range of the hour.
ParseTimeString_MinuteFirst(timeStr) ==
    LET parts == Split(timeStr, ":")
    IN  IF Len(parts) # 2 THEN TimeOf(0, 0, ErrTimeFormat)
        ELSE IF ~Atoi(parts[1]).ok THEN TimeOf(0, 0, ErrInvalidHour)
        ELSE IF ~Atoi(parts[2]).ok THEN TimeOf(0, 0, ErrInvalidMinute)
        ELSE IF Atoi(parts[2]).val < 0 \/ Atoi(parts[2]).val > 59
             THEN TimeOf(0, 0, ErrMinuteRange)
        ELSE IF Atoi(parts[1]).val < 0 \/ Atoi(parts[1]).val > 23
             THEN TimeOf(0, 0, ErrHourRange)
        ELSE TimeOf(Atoi(parts[1]).val, Atoi(parts[2]).val, Nil)

\* func (th *TimeHelper) ParseTimeString(timeStr string) (int, int, error)
ParseTimeString(timeStr) ==
    LET parts == Split(timeStr, ":")
    IN  IF Len(parts) # 2 THEN TimeOf(0, 0, ErrTimeFormat)
        ELSE IF ~Atoi(parts[1]).ok THEN TimeOf(0, 0, ErrInvalidHour)
        ELSE IF ~Atoi(parts[2]).ok THEN TimeOf(0, 0, ErrInvalidMinute)
        ELSE IF Atoi(parts[1]).val < 0 \/ Atoi(parts[1]).val > 23
             THEN TimeOf(0, 0, ErrHourRange)
        ELSE IF Atoi(parts[2]).val < 0 \/ Atoi(parts[2]).val > 59
             THEN TimeOf(0, 0, ErrMinuteRange)
        ELSE TimeOf(Atoi(parts[1]).val, Atoi(parts[2]).val, Nil)

\* func (th *TimeHelper) ParseDuration(durationStr string) (int, error)
ParseDuration(durationStr) ==
    LET t == ParseTimeString(durationStr)
    IN  IF t.err # Nil THEN [val |-> 0, err |-> t.err]
        ELSE [val |-> t.hour * 60 + t.minute, err |-> Nil]

\* Mutant: the minute is written first.
FormatTimeString_MinuteFirst(hour, minute) ==
    SprintfPadded(2, minute) \o <<":">> \o SprintfPadded(2, hour)

\* func (th *TimeHelper) FormatTimeString(hour, minute int) string
FormatTimeString(hour, minute) == SprintfPadded(2, hour) \o <<":">> \o SprintfPadded(2, minute)

\* Go's %: the remainder has the sign of the dividend.
Rem(a, b) == a - b * Quot(a, b)

\* Mutant: the hours and the minutes are written without zeros in front.
FormatDuration_Unpadded(totalMinutes) ==
    Itoa(Quot(totalMinutes, 60)) \o <<":">> \o Itoa(Rem(totalMinutes, 60))

\* func (th *TimeHelper) FormatDuration(totalMinutes int) string
FormatDuration(totalMinutes) ==
    LET hours   == Quot(totalMinutes, 60)
        minutes == Rem(totalMinutes, 60)
    IN  SprintfPadded(2, hours) \o <<":">> \o SprintfPadded(2, minutes)

\* (r >= 'A' && r <= 'Z') || (r >= '0' && r <= '9')
IsUpperOrDigit(r) == r \in {UpperOf[k] : k \in DOMAIN UpperOf} \/ IsDigit(r)

\* Mutant: the length is not checked.
ValidateICAOCode_AnyLength(code) == \A i \in 1..Len(code) : IsUpperOrDigit(code[i])

\* func (rh *RouteHelper) ValidateICAOCode(code string) bool
ValidateICAOCode(code) ==
    IF Len(code) # 4 THEN FALSE
    ELSE \A i \in 1..Len(code) : IsUpperOrDigit(code[i])

\* strconv.ParseFloat(s, 64) on the decimal notation without exponent: an
\* optional sign, digits, and a point with digits before or after it.  The
\* value is held in thousandths.
ParseFloat(s) ==
    LET signed == s # <<>> /\ s[1] \in {"+", "-"}
        body   == IF signed THEN Tail(s) ELSE s
        point  == IndexByte(body, ".")
        whole  == IF point = 0 THEN body ELSE SubSeq(body, 1, point - 1)
        frac   == IF point = 0 THEN <<>> ELSE SubSeq(body, point + 1, Len(body))
        digits == whole \o frac
        places == SubSeq(frac \o <<"0", "0", "0">>, 1, 3)
        milli  == DigitsValue(whole) * 1000 + DigitsValue(places)
    IN  IF digits = <<>> \/ \E i \in 1..Len(digits) : ~IsDigit(digits[i])
        THEN [ok |-> FALSE, val |-> FloatZero]
        ELSE [ok |-> TRUE, val |-> Finite(IF signed /\ s[1] = "-" THEN -milli ELSE milli)]

ErrEmptyFuel == "empty fuel value"
ErrWeightComponent == "invalid weight component"
ErrFuelValue == "invalid fuel value"

FuelOf(weight, time, err) == [weight |-> weight, time |-> time, err |-> err]

\* Mutant: the argument is not trimmed.
ParseFuelValue_NoTrim(value) ==
    LET parts == Split(value, "/")
    IN  IF value = <<>> THEN FuelOf(FloatZero, <<>>, ErrEmptyFuel)
        ELSE IF IndexByte(value, "/") # 0 /\ Len(parts) = 2
        THEN IF ~ParseFloat(parts[1]).ok THEN FuelOf(FloatZero, <<>>, ErrWeightComponent)
             ELSE FuelOf(ParseFloat(parts[1]).val, parts[2], Nil)
        ELSE IF ~ParseFloat(value).ok THEN FuelOf(FloatZero, <<>>, ErrFuelValue)
        ELSE FuelOf(ParseFloat(value).val, <<>>, Nil)

\* func (fh *FuelHelper) ParseFuelValue(value string) (float64, string, error)
ParseFuelValue(value) ==
    LET v     == TrimSpace(value)
        parts == Split(v, "/")
    IN  IF v = <<>> THEN FuelOf(FloatZero, <<>>, ErrEmptyFuel)
        ELSE IF IndexByte(v, "/") # 0 /\ Len(parts) = 2
        THEN IF ~ParseFloat(parts[1]).ok THEN FuelOf(FloatZero, <<>>, ErrWeightComponent)
             ELSE FuelOf(ParseFloat(parts[1]).val, parts[2], Nil)
        ELSE IF ~ParseFloat(v).ok THEN FuelOf(FloatZero, <<>>, ErrFuelValue)
        ELSE FuelOf(ParseFloat(v).val, <<>>, Nil)

\* The pieces argument strings are put together from.
Pieces == { <<" ">>, <<"\t">>, <<":">>, <<"-">>, <<"0">>, <<"5">>, <<"1", "4">>, <<"2", "5">>,
            <<"6", "0">>, <<"0", "5", "0">>, <<"F", "L">>, <<"f", "l">>, <<"A", "B">> }

\* The pieces of fuel values.
FuelPieces == { <<" ">>, <<"/">>, <<".">>, <<"-">>, <<"5">>, <<"1", "5">>,
                <<"0", ".", "0", "5">>, <<"A", "B">> }

RECURSIVE Flatten(_)
Flatten(ss) == IF ss = <<>> THEN <<>> ELSE Head(ss) \o Flatten(Tail(ss))

HelperStrings ==
    {Flatten(ss) : ss \in UNION {[1..n -> Pieces] : n \in 0..MaxPieces}}

\* The value of the string, when it is a number, is one of thousandths below a
\* million: no more than three digits follow a point, and there are no more
\* than six digits.
Thousandths(s) ==
    /\ \A i \in 1..Len(s) : s[i] = "." =>
          \E j \in (i + 1)..(Len(s) + 1) : j <= i + 4 /\ (j = Len(s) + 1 \/ ~IsDigit(s[j]))
    /\ Cardinality({i \in 1..Len(s) : IsDigit(s[i])}) <= 6

FuelStrings ==
    {s \in {Flatten(ss) : ss \in UNION {[1..n -> FuelPieces] : n \in 0..MaxPieces}} :
        Thousandths(s)}

\* The hours and minutes that are formatted, with the first values out of range.
ClockHours == -1..24
ClockMinutes == -1..60

Argument(kind, str, num, num2) == [kind |-> kind, str |-> str, num |-> num, num2 |-> num2]

IdleHelper ==
    /\ hin = Argument("string", <<>>, 0, 0)
    /\ hfn = "none"
    /\ hout = <<>>

\* The argument of the call: a string, a fuel value, a flight level, a number of minutes, or
\* an hour and a minute.
InitHelper ==
    /\ \/ \E s \in HelperStrings : hin = Argument("string", s, 0, 0)
       \/ \E s \in FuelStrings : hin = Argument("fuel", s, 0, 0)
       \/ \E n \in 0..MaxFlightLevel : hin = Argument("int", <<>>, n, 0)
       \/ \E m \in (-MaxNegative)..MaxMinutes : hin = Argument("minutes", <<>>, m, 0)
       \/ \E h \in ClockHours, m \in ClockMinutes : hin = Argument("clock", <<>>, h, m)
    /\ hfn = "none"
    /\ hout = <<>>

Call(name, result) ==
    /\ hfn = "none"
    /\ hfn' = name
    /\ hout' = result
    /\ UNCHANGED <<hin, reqVars, sidVars, fetchVars, builderVars>>

\* A second function is given what the first one has returned.
CallOfResult(first, name, result) ==
    /\ hfn = first
    /\ hfn' = name
    /\ hout' = [formatted |-> hout, parsed |-> result]
    /\ UNCHANGED <<hin, reqVars, sidVars, fetchVars, builderVars>>

CallParseRoute == hin.kind = "string" /\ Call("ParseRoute", ParseRoute(hin.str))

CallParseFlightLevel == hin.kind = "string" /\ Call("ParseFlightLevel", ParseFlightLevel(hin.str))

CallParseTimeString == hin.kind = "string" /\ Call("ParseTimeString", ParseTimeString(hin.str))

CallParseDuration == hin.kind = "string" /\ Call("ParseDuration", ParseDuration(hin.str))

CallParseFuelValue == hin.kind = "fuel" /\ Call("ParseFuelValue", ParseFuelValue(hin.str))

CallValidateICAOCode == hin.kind = "string" /\ Call("ValidateICAOCode", ValidateICAOCode(hin.str))

\* FormatFlightLevel(N * 100) for the flight level N
CallFormatFlightLevel ==
    hin.kind = "int" /\ Call("FormatFlightLevel", FormatFlightLevel(hin.num * 100))

\* ParseFlightLevel is given what FormatFlightLevel has returned.
CallParseFlightLevelOfFormatted ==
    CallOfResult("FormatFlightLevel", "FormatFlightLevel, ParseFlightLevel", ParseFlightLevel(hout))

CallFormatDuration == hin.kind = "minutes" /\ Call("FormatDuration", FormatDuration(hin.num))

\* ParseDuration is given what FormatDuration has returned.
CallParseDurationOfFormatted ==
    CallOfResult("FormatDuration", "FormatDuration, ParseDuration", ParseDuration(hout))

CallFormatTimeString ==
    hin.kind = "clock" /\ Call("FormatTimeString", FormatTimeString(hin.num, hin.num2))

\* ParseTimeString is given what FormatTimeString has returned.
CallParseTimeStringOfFormatted ==
    CallOfResult("FormatTimeString", "FormatTimeString, ParseTimeString", ParseTimeString(hout))

(***************************************************************************)
(* Specifications                                                          *)
(***************************************************************************)
\* A caller constructs a request, validates it and encodes it; the client
\* that generates the URL is one of NewClient(apiKey).
Init ==
    /\ InitRequest /\ IdleStaticID /\ IdleBuilder /\ IdleHelper
    /\ \E k \in APIKeys : ClientIdle(NewClient(k))

Next ==
    \/ CallToURLValues
    \/ CallValidate
    \/ CallValidateFlightPlanRequest
    \/ GenerateURLForRequest

Spec == Init /\ [][Next]_vars

\* A static ID is encoded and decoded; a document of the service is decoded.
InitStaticIDField == IdleRequest /\ InitStaticID /\ IdleFetch /\ IdleBuilder /\ IdleHelper

NextStaticID ==
    \/ Marshal
    \/ Receive
    \/ Unmarshal

SpecStaticID == InitStaticIDField /\ [][NextStaticID]_vars

\* A client fetches flight plans.
InitClient == IdleRequest /\ IdleStaticID /\ InitFetch /\ IdleBuilder /\ IdleHelper

NextFetch ==
    \/ GetFlightPlanByUserID
    \/ GetFlightPlanByUsername
    \/ GetFlightPlanByStaticID
    \/ FetchFlightPlanXMLFormat
    \/ GetFlightPlanXML
    \/ GetSupportedOptions
    \/ CallToQueryParams
    \/ CallGenerateFlightPlanURL
    \/ SetUserAgent
    \/ TransportFails
    \/ Respond
    \/ ReadFails
    \/ ReadBody
    \/ Return

SpecFetch == InitClient /\ [][NextFetch]_vars

\* A caller configures a FlightPlanBuilder and takes requests from it.
InitFlightPlan == IdleRequest /\ IdleStaticID /\ IdleFetch /\ InitBuilder /\ IdleHelper

NextBuilder ==
    \/ CallSetter
    \/ Build

SpecBuilder == InitFlightPlan /\ [][NextBuilder]_vars

\* A helper function is called with one argument.
InitHelpers == IdleRequest /\ IdleStaticID /\ IdleFetch /\ IdleBuilder /\ InitHelper

NextHelpers ==
    \/ CallParseRoute
    \/ CallParseFlightLevel
    \/ CallParseTimeString
    \/ CallParseDuration
    \/ CallFormatFlightLevel
    \/ CallParseFlightLevelOfFormatted
    \/ CallParseFuelValue
    \/ CallValidateICAOCode
    \/ CallFormatDuration
    \/ CallParseDurationOfFormatted
    \/ CallFormatTimeString
    \/ CallParseTimeStringOfFormatted

SpecHelpers == InitHelpers /\ [][NextHelpers]_vars

(***************************************************************************)
(* Properties of the request encoder and the validators.                   *)
(***************************************************************************)
Encoded == "ToURLValues" \in done
Validated == "Validate" \in done
ClientValidated == "ValidateFlightPlanRequest" \in done

\* A field holds a value other than its zero value.
FieldSet(r, f) ==
    CASE f \in IntFields -> r[f] # 0
      [] f \in FloatFields -> FloatNonZero(r[f])
      [] OTHER -> r[f] # <<>>

StringFields == (DOMAIN ZeroRequest) \ (IntFields \cup FloatFields \cup BoolFields
                                         \cup {"AircraftData"})

\* text contains pattern as a contiguous run of bytes.
Contains(text, pattern) ==
    \E i \in 1..(Len(text) - Len(pattern) + 1) :
        SubSeq(text, i, i + Len(pattern) - 1) = pattern

\* C1: the mapping returned by ToURLValues has a key for a field's wire name
\* exactly when the field is non-empty, non-zero or non-nil; every key holds
\* exactly one value; string values are copied verbatim; there are no other keys.
C1_KeysAreTheSetFields ==
    Encoded =>
        /\ DOMAIN values = {WireName[f] : f \in {g \in DOMAIN ZeroRequest : FieldSet(req, g)}}
        /\ \A k \in DOMAIN values : Len(values[k]) = 1
        /\ \A f \in StringFields : FieldSet(req, f) => values[WireName[f]] = <<req[f]>>

\* C8: acdata is present exactly when the Aircraft Override is non-nil (also when
\* all its sub-fields are zero), and its value is a JSON object that has a member
\* for a sub-field exactly when that sub-field is non-empty or non-zero.
C8_AcdataIffOverridePresent ==
    Encoded =>
        /\ ("acdata" \in DOMAIN values) <=> (req.AircraftData # <<>>)
        /\ ("acdata" \in DOMAIN values) =>
              LET text == values["acdata"][1]
                  ms   == AircraftDataMembers(req.AircraftData[1])
              IN  /\ Len(values["acdata"]) = 1
                  /\ Len(text) >= 2 /\ text[1] = "{" /\ text[Len(text)] = "}"
                  /\ \A i \in 1..Len(ms) :
                        Contains(text, <<"\"">> \o ms[i][2] \o <<"\"", ":">>)
                            <=> ~MemberEmpty(ms[i])

\* The conditions a request can violate, in their fixed order: <<violated, message>>.
OrderedChecks(r) == <<
    <<r.Origin = <<>>, ErrMissingOrigin>>,
    <<r.Destination = <<>>, ErrMissingDestination>>,
    <<r.Aircraft = <<>>, ErrMissingAircraft>>,
    <<Len(r.Origin) # 4, ErrOriginLength>>,
    <<Len(r.Destination) # 4, ErrDestinationLength>>,
    <<r.DepartureHour \notin 0..23, ErrDepartureHour>>,
    <<r.DepartureMinute \notin 0..59, ErrDepartureMinute>> >>

Violated(r) == {i \in 1..Len(OrderedChecks(r)) : OrderedChecks(r)[i][1]}

\* C2: ValidateFlightPlanRequest reports the message of the earliest violated
\* check of the fixed order, and nil when no check is violated.
C2_FirstFailureInFixedOrder ==
    ClientValidated =>
        IF Violated(req) = {} THEN cerr = Nil
        ELSE \E i \in Violated(req) :
                /\ \A j \in Violated(req) : i <= j
                /\ cerr = OrderedChecks(req)[i][2]

C2_Witness ==
    /\ ClientValidated
    /\ req.Origin = <<>> /\ req.Destination = <<>>
    /\ cerr = ErrMissingOrigin

RequiredPresent(r) == r.Origin # <<>> /\ r.Destination # <<>> /\ r.Aircraft # <<>>
CodesHaveFour(r) == Len(r.Origin) = 4 /\ Len(r.Destination) = 4

\* C3 as stated: a request accepted by either validation operation has the three
\* required fields non-empty and 4-character origin and destination codes.
C3_AcceptedByEitherIsWellFormed ==
    /\ (Validated /\ terr = Nil) => (RequiredPresent(req) /\ CodesHaveFour(req))
    /\ (ClientValidated /\ cerr = Nil) => (RequiredPresent(req) /\ CodesHaveFour(req))

\* C3, as the code has it: a request accepted by Client.ValidateFlightPlanRequest has the
\* three required fields non-empty and 4-character origin and destination codes;
\* a request accepted by FlightPlanRequest.Validate has the three required
\* fields non-empty (the length of the codes is not checked there).
C3_AcceptedRequests ==
    /\ (Validated /\ terr = Nil) => RequiredPresent(req)
    /\ (ClientValidated /\ cerr = Nil) => (RequiredPresent(req) /\ CodesHaveFour(req))

C3_Witness ==
    /\ Validated /\ terr = Nil /\ ~CodesHaveFour(req)
    /\ ClientValidated /\ cerr # Nil

BoolOptions == {"NavLog", "ETOPS", "StepClimbs", "RunwayAnalysis", "NOTAMs",
                "FIRNOTAMs", "OmitSIDs", "OmitSTARs"}

\* C6: a tri-state option is encoded as "1" when present and true, as "0" when
\* present and false, and has no parameter when absent.
C6_TriStateBooleans ==
    Encoded =>
        \A f \in BoolOptions :
            /\ req[f] = <<TRUE>> => (WireName[f] \in DOMAIN values
                                     /\ values[WireName[f]] = << <<"1">> >>)
            /\ req[f] = <<FALSE>> => (WireName[f] \in DOMAIN values
                                      /\ values[WireName[f]] = << <<"0">> >>)
            /\ req[f] = <<>> => WireName[f] \notin DOMAIN values

C6_Witness ==
    /\ Encoded
    /\ req.NavLog = <<FALSE>>
    /\ "navlog" \in DOMAIN values /\ values["navlog"] = << <<"0">> >>

\* C7: an integer field is emitted as its decimal string exactly when it is
\* non-zero; a departure hour or minute of 0, or a taxi time of 0, of a request
\* the validator accepts has no parameter.
C7_IntegersOmittedWhenZero ==
    Encoded =>
        \A f \in IntFields :
            IF req[f] = 0 THEN WireName[f] \notin DOMAIN values
            ELSE /\ WireName[f] \in DOMAIN values
                 /\ Len(values[WireName[f]]) = 1
                 /\ Atoi(values[WireName[f]][1]) = [ok |-> TRUE, val |-> req[f]]
                 /\ values[WireName[f]][1][1] \notin {"+", "0"}

C7_Witness ==
    /\ Encoded /\ ClientValidated /\ cerr = Nil
    /\ req.DepartureHour = 0 /\ req.DepartureMinute = 30
    /\ "deph" \notin DOMAIN values
    /\ values["depm"] = << <<"3", "0">> >>

\* C9: with the required fields and airport codes valid, the validator succeeds
\* exactly when the hour is in 0..23 and the minute in 0..59; an hour out of
\* range is reported before a minute out of range.
C9_DepartureTimeRange ==
    (ClientValidated /\ RequiredPresent(req) /\ CodesHaveFour(req)) =>
        /\ (cerr = Nil) <=> (req.DepartureHour \in 0..23 /\ req.DepartureMinute \in 0..59)
        /\ req.DepartureHour \notin 0..23 => cerr = ErrDepartureHour
        /\ (req.DepartureHour \in 0..23 /\ req.DepartureMinute \notin 0..59)
              => cerr = ErrDepartureMinute

C9_Witness ==
    /\ ClientValidated /\ RequiredPresent(req) /\ CodesHaveFour(req)
    /\ req.DepartureHour = -1 /\ req.DepartureMinute = 60
    /\ cerr = ErrDepartureHour

(***************************************************************************)
(* Properties of the static-ID field.                                      *)
(***************************************************************************)
\* The document is a JSON value of the kind that starts with the byte first.
IsJSON(t, first) == ValidJSON(t) /\ t[1] = first

EncodedSymmetrically ==
    /\ sid = <<>> => wire = <<"{", "}">>
    /\ sid # <<>> => IsJSON(wire, "\"")

ValidUTF8(s) == \A i \in 1..Len(s) : s[i] # BadByte

\* C4 as stated: MarshalJSON followed by UnmarshalJSON returns the original
\* value for every string; "" is encoded as an empty object, any other string
\* as a plain JSON string.
C4_RoundTripEveryString ==
    phase = "roundtrip" => (uerr = Nil /\ got = sid /\ EncodedSymmetrically)

\* C4, as the code has it: MarshalJSON followed by UnmarshalJSON succeeds for every string
\* and returns the original value for every string that is valid UTF-8; "" is
\* encoded as an empty object, any other string as a plain JSON string.
C4_RoundTripValidUTF8 ==
    phase = "roundtrip" =>
        /\ uerr = Nil
        /\ EncodedSymmetrically
        /\ ValidUTF8(sid) => got = sid

C4_Witness ==
    /\ phase = "roundtrip"
    /\ sid = <<"\"", "<">>
    /\ got = sid
    /\ uerr = Nil

Decoded == phase \in {"roundtrip", "decoded"}

\* C5 as stated: decoding succeeds only for a plain string (yielding it) or an
\* empty object (yielding ""); every other wire value fails with an error.
C5_OnlyStringOrEmptyObject ==
    Decoded =>
        /\ (uerr = Nil) <=> (IsJSON(wire, "\"") \/ wire = <<"{", "}">>)
        /\ IsJSON(wire, "\"") => got = Unquote(wire, 2)
        /\ wire = <<"{", "}">> => got = <<>>

\* C5, as the code has it: decoding succeeds exactly for a JSON string (yielding it), for
\* null and for a JSON object, empty or not (both yielding ""); a number, a
\* boolean, an array and malformed input fail with the static_id error and
\* leave the field as it was.
C5_AcceptedShapes ==
    Decoded =>
        /\ (uerr = Nil) <=> (IsJSON(wire, "\"") \/ IsJSON(wire, "{") \/ IsJSON(wire, "n"))
        /\ IsJSON(wire, "\"") => got = Unquote(wire, 2)
        /\ (IsJSON(wire, "{") \/ IsJSON(wire, "n")) => got = <<>>
        /\ uerr # Nil => (uerr = ErrStaticID /\ got = <<>>)

C5_Witness ==
    /\ phase = "decoded"
    /\ wire = <<"{", "\"", "a", "\"", ":", "1", "}">>
    /\ uerr = Nil
    /\ got = <<>>

(***************************************************************************)
(* Properties of the fetch operations.                                     *)
(***************************************************************************)
\* The format the operation declares for the body.
DeclaredJSON == op = "fetchFlightPlan" /\ freq.JSON

BodyParsesAsError ==
    IF DeclaredJSON THEN JSONDecodesAPIError(resp.body)
    ELSE XMLDecodesAPIError(resp.body)

\* A response has arrived and its body has been read.
BodyRead == resp.status # 0 /\ ret.err # ErrReadBody

C11_ExactlyOneRequest == pc = "returned" => sent = 1

\* C11, as the code has it: an invocation never issues more than one HTTP GET;
\* one that has returned has issued exactly one, whatever it returns (a result,
\* a transport error, a status error, a decode error), except that it has
\* issued none when http.NewRequest rejected the URL.
C11_AtMostOneRequest ==
    /\ sent <= 1
    /\ pc = "returned" => sent = (IF ret.err = ErrCreateRequest THEN 0 ELSE 1)

C11_Witness ==
    /\ pc = "returned"
    /\ op = "GetSupportedOptions"
    /\ resp.status = StatusOK
    /\ ret = Returns(NoResult, ErrDecodeOptions)
    /\ sent = 1

\* The query string of a URL and the names of its parameters.
QueryOf(u) == IF IndexByte(u, "?") = 0 THEN <<>> ELSE SubSeq(u, IndexByte(u, "?") + 1, Len(u))

ParamsOf(u) == IF QueryOf(u) = <<>> THEN {}
               ELSE {Split(QueryOf(u), "&")[i] : i \in 1..Len(Split(QueryOf(u), "&"))}

ParamName(p) == IF IndexByte(p, "=") = 0 THEN p ELSE SubSeq(p, 1, IndexByte(p, "=") - 1)

HasParam(u, k) == \E p \in ParamsOf(u) : ParamName(p) = KeyChars[k]

NetworkOps == {"fetchFlightPlan", "GetFlightPlanXML", "GetSupportedOptions"}

\* C12: the URL built by GenerateFlightPlanURL has the parameter api_key, holding
\* the credential, exactly when the credential is non-empty; the URL requested by
\* a fetch operation never has the parameter api_key, whatever the credential and
\* the FetchRequest are.
C12_CredentialOnlyOnGeneration ==
    /\ op = "GenerateFlightPlanURL" =>
          /\ HasParam(url, "api_key") <=> client.APIKey # <<>>
          /\ client.APIKey # <<>> =>
                (KeyChars["api_key"] \o <<"=">> \o QueryEscape(client.APIKey)) \in ParamsOf(url)
    /\ op \in NetworkOps => ~HasParam(url, "api_key")

C12_Witness ==
    /\ op = "fetchFlightPlan"
    /\ pc = "do"
    /\ client.APIKey = <<"k", "e", "y">>
    /\ freq.Username = <<"a", "&", "a", "p", "i", "_", "k", "e", "y", "=", "k">>
    /\ HasParam(url, "username")
    /\ ~HasParam(url, "api_key")

(***************************************************************************)
(* Properties of the FlightPlanBuilder.                                    *)
(***************************************************************************)
AllFields == DOMAIN ZeroRequest

\* The fields a call on the builder targets; the constructor targets them all.
Targets(c) ==
    CASE c.name = "NewFlightPlan" -> AllFields
      [] c.name = "DepartureTime" -> {"DepartureHour", "DepartureMinute"}
      [] c.name = "TaxiTimes" -> {"TaxiOut", "TaxiIn"}
      [] c.name = "Runways" -> {"OriginRunway", "DestRunway"}
      [] c.name \in {"Date", "DateFromTime"} -> {"Date"}
      [] c.name \in {"Altitude", "AltitudeFromFeet", "AltitudeFromFlightLevel"} -> {"Altitude"}
      [] c.name = "CallSign" -> {"ATCCallsign"}
      [] c.name = "Captain" -> {"CaptainName"}
      [] c.name = "Dispatcher" -> {"DispatcherName"}
      [] c.name \in {"EnableNavLog", "DisableNavLog"} -> {"NavLog"}
      [] c.name = "EnableETOPS" -> {"ETOPS"}
      [] c.name = "EnableStepClimbs" -> {"StepClimbs"}
      [] c.name = "CustomAircraftData" -> {"AircraftData"}
      [] OTHER -> {c.name}

\* The value a call gives to a field it targets.
Given(c, f) ==
    CASE c.name = "NewFlightPlan" ->
            (CASE f = "Origin" -> c.args[1]
               [] f = "Destination" -> c.args[2]
               [] f = "Aircraft" -> c.args[3]
               [] OTHER -> ZeroRequest[f])
      [] c.name \in {"DepartureTime", "TaxiTimes", "Runways"} ->
            (IF f \in {"DepartureHour", "TaxiOut", "OriginRunway"} THEN c.args[1] ELSE c.args[2])
      [] c.name = "DateFromTime" -> FormatDate(c.args[1])
      [] c.name = "AltitudeFromFeet" -> Itoa(c.args[1])
      [] c.name = "AltitudeFromFlightLevel" -> <<"F", "L">> \o SprintfPadded(3, c.args[1])
      [] c.name \in {"EnableNavLog", "EnableETOPS", "EnableStepClimbs"} -> <<TRUE>>
      [] c.name = "DisableNavLog" -> <<FALSE>>
      [] OTHER -> c.args[1]

\* The last of the first n calls that targets the field f.
LastTargeting(f, n) ==
    CHOOSE i \in 1..n : /\ f \in Targets(calls[i])
                        /\ \A j \in (i + 1)..n : f \notin Targets(calls[j])

\* C13: in the request Build returns, every field has the value given by the
\* last call before the Build that targets it: a setter, or else NewFlightPlan,
\* which gives the three required fields its arguments and every other field
\* its zero value.
C13_BuildReturnsLastSettings ==
    \A i \in 1..Len(returned) :
        \A f \in AllFields :
            returned[i].value[f] = Given(calls[LastTargeting(f, returned[i].after)], f)

C13_Witness ==
    /\ Len(returned) = 1
    /\ returned[1].after = 3
    /\ calls[2].name = "EnableNavLog"
    /\ calls[3].name = "DisableNavLog"
    /\ returned[1].value.NavLog = <<FALSE>>
    /\ returned[1].value.Origin = <<"K", "J", "F", "K">>
    /\ returned[1].value.Route = <<>>

\* C14 as stated: a request that Build has returned keeps the value it had when
\* it was returned, whatever setters are called on the builder afterwards.
C14_ReturnedRequestImmutable ==
    \A i \in 1..Len(returned) : heap[returned[i].ref] = returned[i].value

\* The call that a step appends to the history.
NewCall == calls'[Len(calls')]
IsCall(names) == Len(calls') = Len(calls) + 1 /\ NewCall.name \in names

\* n >= 0 with zeros in front up to k digits, k being 2 or 3.
AtLeastDigits(n, k) ==
    IF n < 10 THEN (IF k = 3 THEN <<"0", "0">> ELSE <<"0">>) \o NatToStr(n)
    ELSE IF n < 100 /\ k = 3 THEN <<"0">> \o NatToStr(n)
    ELSE NatToStr(n)

\* "FL" and N with zeros in front up to 3 digits; the sign of a negative N first.
FlightLevelString(n) ==
    <<"F", "L">> \o (IF n >= 0 THEN AtLeastDigits(n, 3) ELSE <<"-">> \o AtLeastDigits(-n, 3))

OnlyAltitudeBecomes(text) ==
    heap' = [heap EXCEPT ![builder.request] = [heap[builder.request] EXCEPT !.Altitude = text]]

\* C15 as stated: AltitudeFromFlightLevel(N) sets the altitude to "FL" and N
\* zero-padded to at least 3 digits, AltitudeFromFeet(F) to the decimal string
\* of F, and neither changes another field.
C15_AltitudeSetters ==
    [][ /\ IsCall({"AltitudeFromFlightLevel"}) => OnlyAltitudeBecomes(FlightLevelString(NewCall.args[1]))
        /\ IsCall({"AltitudeFromFeet"}) => OnlyAltitudeBecomes(Itoa(NewCall.args[1])) ]_vars

\* C15, as the code has it: for N >= 0 as stated; for N < 0 the sign counts as one
\* of the three characters, so that the altitude is "FL-" and -N zero-padded to
\* at least 2 digits.
C15_AltitudeSettersSigned ==
    [][ /\ IsCall({"AltitudeFromFlightLevel"}) =>
              OnlyAltitudeBecomes(IF NewCall.args[1] >= 0
                                  THEN FlightLevelString(NewCall.args[1])
                                  ELSE <<"F", "L", "-">> \o AtLeastDigits(-NewCall.args[1], 2))
        /\ IsCall({"AltitudeFromFeet"}) => OnlyAltitudeBecomes(Itoa(NewCall.args[1])) ]_vars

C15_Witness ==
    /\ Len(calls) = 3
    /\ calls[2].name = "Passengers"
    /\ calls[3] = [name |-> "AltitudeFromFlightLevel", args |-> <<50>>]
    /\ heap[builder.request].Altitude = <<"F", "L", "0", "5", "0">>
    /\ heap[builder.request].Passengers = 150

(***************************************************************************)
(* Properties of the helpers.                                              *)
(***************************************************************************)
\* The argument splits on ":" into two integers, the hour and the minute.
TwoIntegers(s) ==
    /\ Len(Split(s, ":")) = 2
    /\ Atoi(Split(s, ":")[1]).ok
    /\ Atoi(Split(s, ":")[2]).ok

HourOf(s) == Atoi(Split(s, ":")[1]).val
MinuteOf(s) == Atoi(Split(s, ":")[2]).val

\* C16 as stated: ParseDuration accepts "HH:MM" with any hour from 0 up, above
\* 23 as well, requires the minute in 0..59 and returns hour*60+minute.
C16_DurationHoursUnbounded ==
    hfn = "ParseDuration" =>
        /\ (TwoIntegers(hin.str) /\ HourOf(hin.str) >= 0 /\ MinuteOf(hin.str) \in 0..59)
              => hout = [val |-> HourOf(hin.str) * 60 + MinuteOf(hin.str), err |-> Nil]
        /\ (TwoIntegers(hin.str) /\ MinuteOf(hin.str) \notin 0..59) => hout.err # Nil

\* C17: ParseTimeString returns (hour, minute, nil) exactly when the argument
\* splits on ":" into two integers with the hour in 0..23 and the minute in
\* 0..59; otherwise it returns (0, 0, error), the error being that of the first
\* failing check of: part count, hour numeric, minute numeric, hour range,
\* minute range.
C17_ParseTimeString ==
    hfn = "ParseTimeString" =>
        LET s == hin.str
            ok == TwoIntegers(s) /\ HourOf(s) \in 0..23 /\ MinuteOf(s) \in 0..59
            first == IF Len(Split(s, ":")) # 2 THEN ErrTimeFormat
                     ELSE IF ~Atoi(Split(s, ":")[1]).ok THEN ErrInvalidHour
                     ELSE IF ~Atoi(Split(s, ":")[2]).ok THEN ErrInvalidMinute
                     ELSE IF HourOf(s) \notin 0..23 THEN ErrHourRange
                     ELSE IF MinuteOf(s) \notin 0..59 THEN ErrMinuteRange
                     ELSE Nil
        IN  /\ (hout.err = Nil) <=> ok
            /\ ok => hout = TimeOf(HourOf(s), MinuteOf(s), Nil)
            /\ ~ok => first # Nil /\ hout = TimeOf(0, 0, first)

C17_Witness ==
    /\ hfn = "ParseTimeString"
    /\ hin.str = <<"2", "5", ":", "6", "0">>
    /\ hout = TimeOf(0, 0, ErrHourRange)

\* C18: for every flight level N from 0 to MaxFlightLevel, ParseFlightLevel
\* applied to FormatFlightLevel(N*100), which is the builder's "FL%03d" string
\* for N, returns N*100 and no error.
C18_FlightLevelRoundTrip ==
    hfn = "FormatFlightLevel, ParseFlightLevel" =>
        /\ hout.formatted = Set(ZeroRequest, "AltitudeFromFlightLevel", <<hin.num>>).Altitude
        /\ hout.parsed = [val |-> hin.num * 100, err |-> Nil]

C18_Witness ==
    /\ hfn = "FormatFlightLevel, ParseFlightLevel"
    /\ hin.num = 50
    /\ hout.formatted = <<"F", "L", "0", "5", "0">>
    /\ hout.parsed = [val |-> 5000, err |-> Nil]

\* C19: ParseFlightLevel trims and uppercases the argument; when the result
\* starts with "FL" it returns 100 times the integer that follows, otherwise the
\* integer the whole string is; it returns (0, error) when that integer does
\* not parse, as for "FL" with nothing after it.
C19_ParseFlightLevel ==
    hfn = "ParseFlightLevel" =>
        LET s == ToUpper(TrimSpace(hin.str))
            level == HasPrefix(s, <<"F", "L">>)
            n == IF level THEN Atoi(SubSeq(s, 3, Len(s))) ELSE Atoi(s)
        IN  IF n.ok
            THEN hout = [val |-> IF level THEN 100 * n.val ELSE n.val, err |-> Nil]
            ELSE hout.val = 0 /\ hout.err # Nil

C19_Witness ==
    /\ hfn = "ParseFlightLevel"
    /\ hin.str = <<" ", "f", "l", "0", "5", "0">>
    /\ hout = [val |-> 5000, err |-> Nil]

\* The positions where a maximal run of bytes without white space starts, and
\* where the run that starts at i ends.
RunStarts(s) == {i \in 1..Len(s) : ~IsSpace(s[i]) /\ (i = 1 \/ IsSpace(s[i - 1]))}

RunEnd(s, i) ==
    CHOOSE j \in i..Len(s) : /\ \A k \in i..j : ~IsSpace(s[k])
                             /\ (j = Len(s) \/ IsSpace(s[j + 1]))

\* C20: ParseRoute returns the maximal runs of bytes without white space, in
\* their order in the argument, and never nil: for an empty or blank argument
\* an empty slice.
C20_ParseRoute ==
    hfn = "ParseRoute" =>
        LET s == hin.str
        IN  /\ ~hout.nil
            /\ Len(hout.items) = Cardinality(RunStarts(s))
            /\ \A i \in RunStarts(s) :
                  hout.items[Cardinality({k \in RunStarts(s) : k <= i})] = SubSeq(s, i, RunEnd(s, i))

C20_Witness ==
    /\ hfn = "ParseRoute"
    /\ hin.str = <<"A", "B", "\t", "5">>
    /\ hout = Slice(<< <<"A", "B">>, <<"5">> >>)

\* The number of times the byte c occurs in s.
CountByte(s, c) == Cardinality({i \in 1..Len(s) : s[i] = c})

\* C21: ParseFuelValue trims the argument and fails on an empty or blank one;
\* without "/" it returns (the number the whole string is, ""); with one "/"
\* it returns (the number before the "/", what follows the "/" as it is); it
\* returns (0, "", error) whenever the weight is not a number, which is also
\* what it returns for more than one "/".
C21_ParseFuelValue ==
    hfn = "ParseFuelValue" =>
        LET v      == TrimSpace(hin.str)
            slash  == IndexByte(v, "/")
            pair   == CountByte(v, "/") = 1
            weight == IF pair THEN SubSeq(v, 1, slash - 1) ELSE v
            time   == IF pair THEN SubSeq(v, slash + 1, Len(v)) ELSE <<>>
        IN  IF v # <<>> /\ ParseFloat(weight).ok
            THEN hout = FuelOf(ParseFloat(weight).val, time, Nil)
            ELSE hout.weight = FloatZero /\ hout.time = <<>> /\ hout.err # Nil

C21_Witness ==
    /\ hfn = "ParseFuelValue"
    /\ hin.str = <<"0", ".", "0", "5", "/", "1", "5">>
    /\ hout = FuelOf(Finite(50), <<"1", "5">>, Nil)

\* Go's quotient and remainder of m by 60, both truncated toward zero.
HoursOf(m) == IF m >= 0 THEN m \div 60 ELSE -((-m) \div 60)
MinutesOf(m) == m - 60 * HoursOf(m)

\* C22 as stated: for every m, FormatDuration(m) is HH ":" MM with HH = m/60
\* and MM = m%60, each written with zeros in front up to at least two digits.
C22_FormatDuration ==
    hfn = "FormatDuration" =>
        LET padded(n) == IF n >= 0 THEN AtLeastDigits(n, 2) ELSE <<"-">> \o AtLeastDigits(-n, 2)
        IN  hout = padded(HoursOf(hin.num)) \o <<":">> \o padded(MinutesOf(hin.num))

\* C22, as the code has it: for every m >= 0, FormatDuration(m) is HH ":" MM,
\* both with zeros in front up to at least two digits, MM in 0..59 and
\* HH*60+MM = m, with no upper bound on HH; for m < 0 the sign of a negative
\* HH or MM takes one of the two places (-5 gives "00:-5", -65 gives "-1:-5").
C22_FormatDurationSigned ==
    hfn = "FormatDuration" =>
        LET m         == hin.num
            parts     == Split(hout, ":")
            signed(n) == IF n >= 0 THEN AtLeastDigits(n, 2) ELSE Itoa(n)
        IN  /\ hout = signed(HoursOf(m)) \o <<":">> \o signed(MinutesOf(m))
            /\ m >= 0 =>
                  /\ Len(parts) = 2 /\ Len(parts[1]) >= 2 /\ Len(parts[2]) = 2
                  /\ Atoi(parts[2]).val \in 0..59
                  /\ Atoi(parts[1]).val * 60 + Atoi(parts[2]).val = m

C22_Witness ==
    /\ hfn = "FormatDuration"
    /\ hin.num = 1500
    /\ hout = <<"2", "5", ":", "0", "0">>

\* C23: ValidateICAOCode returns true exactly when the argument is four bytes
\* long and each of them is one of A..Z or 0..9.
C23_ValidateICAOCode ==
    hfn = "ValidateICAOCode" =>
        (hout = TRUE <=>
            /\ Len(hin.str) = 4
            /\ \A i \in 1..Len(hin.str) :
                  hin.str[i] \in {"A", "B", "C", "D", "E", "F", "G", "H", "I", "J", "K", "L", "M",
                                  "N", "O", "P", "Q", "R", "S", "T", "U", "V", "W", "X", "Y", "Z",
                                  "0", "1", "2", "3", "4", "5", "6", "7", "8", "9"})

C23_Witness ==
    /\ hfn = "ValidateICAOCode"
    /\ hin.str = <<"A", "B", "1", "4">>
    /\ hout = TRUE

\* C28: for every m in 0..1439, ParseDuration(FormatDuration(m)) returns m and
\* no error; for every hour in 0..23 and minute in 0..59,
\* ParseTimeString(FormatTimeString(hour, minute)) returns the hour and the
\* minute and no error.
C28_TimeRoundTrips ==
    /\ (hfn = "FormatDuration, ParseDuration" /\ hin.num \in 0..1439) =>
          hout.parsed = [val |-> hin.num, err |-> Nil]
    /\ (hfn = "FormatTimeString, ParseTimeString" /\ hin.num \in 0..23 /\ hin.num2 \in 0..59) =>
          hout.parsed = [hour |-> hin.num, minute |-> hin.num2, err |-> Nil]

C28_Witness ==
    /\ hfn = "FormatDuration, ParseDuration"
    /\ hin.num = 1439
    /\ hout.formatted = <<"2", "3", ":", "5", "9">>
    /\ hout.parsed = [val |-> 1439, err |-> Nil]

(***************************************************************************)
(* Properties of the fetch query, the User-Agent header and the XML fetch. *)
(***************************************************************************)
\* The parameter "name=value" with the value escaped, or nothing for an empty value.
ParamIfSet(k, value) ==
    IF value = <<>> THEN {} ELSE {KeyChars[k] \o <<"=">> \o QueryEscape(value)}

\* C24: ToQueryParams returns the empty string when UserID, Username and
\* StaticID are empty and JSON is false; otherwise it returns "?" followed by
\* exactly the parameters userid, username and static_id of the non-empty
\* fields, and json=1 exactly when the JSON flag is true.
C24_ToQueryParams ==
    op = "ToQueryParams" =>
        LET expected == ParamIfSet("userid", freq.UserID)
                        \cup ParamIfSet("username", freq.Username)
                        \cup ParamIfSet("static_id", freq.StaticID)
                        \cup (IF freq.JSON THEN {<<"j", "s", "o", "n", "=", "1">>} ELSE {})
        IN  IF expected = {} THEN url = <<>>
            ELSE /\ url[1] = "?"
                 /\ ParamsOf(url) = expected
                 /\ Len(Split(QueryOf(url), "&")) = Cardinality(expected)
                 /\ HasParam(url, "json") <=> freq.JSON

C24_Witness ==
    /\ op = "ToQueryParams"
    /\ freq = FetchRequest(<<"1", "2", "3">>, <<>>, <<"A", "_", "1">>, TRUE)
    /\ url = <<"?", "j", "s", "o", "n", "=", "1", "&", "s", "t", "a", "t", "i", "c", "_", "i", "d",
               "=", "A", "_", "1", "&", "u", "s", "e", "r", "i", "d", "=", "1", "2", "3">>

\* C26 as stated: a request that is sent after SetUserAgent calls carries the
\* value of the most recent call, the outermost wrapper of the transport, as
\* its User-Agent header.
C26_MostRecentUserAgent ==
    (sent > 0 /\ client.Transport # <<>>) => header = Head(client.Transport)

\* C29: GetFlightPlanXML requests a URL without the parameter json, whatever
\* the JSON flag of the request it is given; of the caller's request it sets
\* the JSON flag to false, also when it fails, and changes nothing else.
C29_XMLFormatForced ==
    (op = "GetFlightPlanXML" /\ pc # "idle") =>
        /\ ~HasParam(url, "json")
        /\ url = client.BaseURL \o endpointXMLFetcher
                   \o (IF QueryOf(url) = <<>> THEN <<>> ELSE <<"?">> \o QueryOf(url))
        /\ ParamsOf(url) = ParamIfSet("userid", given.UserID)
                           \cup ParamIfSet("username", given.Username)
                           \cup ParamIfSet("static_id", given.StaticID)
        /\ freq = [given EXCEPT !.JSON = FALSE]

C29_Witness ==
    /\ op = "GetFlightPlanXML"
    /\ pc = "returned"
    /\ ret.err = ErrCreateRequest
    /\ given = FetchRequest(<<"1", "2", "3">>, <<"b", "o", "b">>, <<>>, TRUE)
    /\ freq = FetchRequest(<<"1", "2", "3">>, <<"b", "o", "b">>, <<>>, FALSE)

(***************************************************************************)
(* Properties of the encoder, the two validators and the generation URL.   *)
(***************************************************************************)
URLGenerated == "GenerateFlightPlanURL" \in done

C27_ValidatorsAgreeOnRequired ==
    (Validated /\ ClientValidated) =>
        /\ terr # Nil <=> cerr \in {"origin airport (orig) is required",
                                    "destination airport (dest) is required",
                                    "aircraft type (type) is required"}
        /\ terr # Nil => terr = cerr
        /\ cerr = Nil => terr = Nil

C27_Witness ==
    /\ Validated
    /\ ClientValidated
    /\ req.Origin # <<>>
    /\ req.Destination # <<>>
    /\ req.Aircraft = <<>>
    /\ terr = "aircraft type (type) is required"
    /\ cerr = terr

====
